---- MODULE Spec2Model ----
(***************************************************************************)
(* StressSpec risk detection engine: the risk identifier generator, the    *)
(* risk factory, the analyzer loop, the security detector, the detector    *)
(* factory and the scoring module, each as a state machine over its own    *)
(* variables.  Python strings are TLA+ strings; lists are sequences;       *)
(* dicts are functions whose DOMAIN is the key set.                        *)
(***************************************************************************)
EXTENDS Integers, Sequences, FiniteSets, TLC

VARIABLES
    \* RiskIdGenerator under test, a second generator constructed fresh at the
    \* time of reset(), and the call logs of both
    counters, fresh_counters, log, replay_ids, fresh_ids, gen_phase

VARIABLES
    \* analyze_requirements: its two arguments, the RiskIdGenerator counters each
    \* detector owns, the dict being built, the position of the two loops, and
    \* the record of what every detect_risks call did
    requirements, detectors, det_counters, risks_by_requirement,
    req_index, det_index, analyze_pc, returned

genVars == <<counters, fresh_counters, log, replay_ids, fresh_ids, gen_phase>>

analyzeVars == <<requirements, detectors, det_counters, risks_by_requirement,
                 req_index, det_index, analyze_pc, returned>>

VARIABLES
    \* SecurityDetector: the 'security' rules of the rule document and the
    \* case_sensitive global setting it was constructed with, the counters of
    \* its RiskIdGenerator, how many requirements it has analysed, and the
    \* locals of its last detect_risks call
    sec_rules, sec_case_sensitive, sec_counters, sec_calls, sec_last

secVars == <<sec_rules, sec_case_sensitive, sec_counters, sec_calls, sec_last>>

VARIABLES
    \* RiskDetectorFactory: the 'enabled' flags of the rule document's detector
    \* blocks, the factory's _detector_cache, and what its last call did
    fac_config, fac_cache, fac_last

facVars == <<fac_config, fac_cache, fac_last>>

VARIABLES
    \* calculate_risk_scores: its two arguments, and what the call gave
    score_requirements, score_risks, scores, score_raised, score_pc

scoreVars == <<score_requirements, score_risks, scores, score_raised, score_pc>>

VARIABLES
    \* get_top_riskiest: its three arguments (risk_scores as the items of the
    \* dict in iteration order), and the list the call returned
    top_requirements, top_scores, top_n, top_result, top_pc

topVars == <<top_requirements, top_scores, top_n, top_result, top_pc>>

VARIABLES
    \* RequirementStructureDetector: the raw lines of a file, the units
    \* parse_structured_requirements made of them, the units handed to
    \* filter_valid_requirements and the units it kept
    struct_lines, struct_units, struct_given, struct_valid, struct_pc

structVars == <<struct_lines, struct_units, struct_given, struct_valid, struct_pc>>

VARIABLES
    \* TraceabilityDetector: the traceability block of the rule document (its
    \* 'enabled', 'severity' and 'rules'), the global case_sensitive setting,
    \* the number of requirements handed to it and the outcome of the last call
    trace_enabled, trace_severity, trace_rules, trace_case_sensitive,
    trace_calls, trace_last

traceVars == <<trace_enabled, trace_severity, trace_rules, trace_case_sensitive,
               trace_calls, trace_last>>

VARIABLES
    \* ConflictDetector: the 'pairs' of its contradictory_terms rule, the
    \* 'keywords' of its conflicting_priorities rule, the global case_sensitive
    \* setting, the detector's id counters, the number of requirements handed
    \* to it and the outcome of the last call
    conf_pairs, conf_keywords, conf_case_sensitive, conf_counters, conf_calls, conf_last

confVars == <<conf_pairs, conf_keywords, conf_case_sensitive, conf_counters,
              conf_calls, conf_last>>

VARIABLES
    \* JsonFileConfigurationProvider: the content of the rules file, the
    \* provider's _config (<<>> for None), how often the file was read, the
    \* number of calls made, the outcome of the last call, and the document the
    \* provider last returned since the last reload (<<>> when none)
    prov_source, prov_config, prov_reads, prov_calls, prov_last, prov_loaded

provVars == <<prov_source, prov_config, prov_reads, prov_calls, prov_last, prov_loaded>>

VARIABLES
    \* RequirementParser: its _id_counter, the number of parse calls made,
    \* the outcome of the last call, and, since the last reset, the number of
    \* items handed to the parser and the requirements it returned, each with
    \* the position of its item among the items handed
    par_counter, par_calls, par_last, par_handed, par_produced

parVars == <<par_counter, par_calls, par_last, par_handed, par_produced>>

VARIABLES
    \* CircuitBreaker: its config, state, failure_count, success_count and
    \* last_failure_time (-1 for None), the clock time.time() reads, the number
    \* of calls made, the outcome of the last call, and two counts kept for the
    \* claims: the failed calls made in CLOSED since the last success, and the
    \* successful calls made since the breaker last entered HALF_OPEN
    cb_config, cb_state, cb_failure_count, cb_success_count, cb_last_failure_time,
    cb_now, cb_calls, cb_last, cb_closed_failures, cb_episode_successes

cbVars == <<cb_config, cb_state, cb_failure_count, cb_success_count, cb_last_failure_time,
            cb_now, cb_calls, cb_last, cb_closed_failures, cb_episode_successes>>

VARIABLES
    \* RetryManager: config.max_attempts, the number of retry calls made and
    \* the outcome of the last one
    retry_max_attempts, retry_calls, retry_last

retryVars == <<retry_max_attempts, retry_calls, retry_last>>

VARIABLES
    \* repeated analysis: the requirement list, the detector types asked of the
    \* factory, the number of risks each detector finds on each requirement,
    \* the factory's _detector_cache (one id generator's counters per cached
    \* instance) and the dict each analyze_requirements call returned
    rerun_requirements, rerun_types, rerun_found, rerun_cache, rerun_results

rerunVars == <<rerun_requirements, rerun_types, rerun_found, rerun_cache, rerun_results>>

vars == <<genVars, analyzeVars, secVars, facVars, scoreVars, topVars, structVars, traceVars, confVars, provVars, parVars, cbVars, retryVars, rerunVars>>

notGenVars == <<analyzeVars, secVars, facVars, scoreVars, topVars, structVars, traceVars, confVars, provVars, parVars, cbVars, retryVars, rerunVars>>

notAnalyzeVars == <<genVars, secVars, facVars, scoreVars, topVars, structVars, traceVars, confVars, provVars, parVars, cbVars, retryVars, rerunVars>>

notSecVars == <<genVars, analyzeVars, facVars, scoreVars, topVars, structVars, traceVars, confVars, provVars, parVars, cbVars, retryVars, rerunVars>>

notFacVars == <<genVars, analyzeVars, secVars, scoreVars, topVars, structVars, traceVars, confVars, provVars, parVars, cbVars, retryVars, rerunVars>>

notScoreVars == <<genVars, analyzeVars, secVars, facVars, topVars, structVars, traceVars, confVars, provVars, parVars, cbVars, retryVars, rerunVars>>

notTopVars == <<genVars, analyzeVars, secVars, facVars, scoreVars, structVars, traceVars, confVars, provVars, parVars, cbVars, retryVars, rerunVars>>

notStructVars == <<genVars, analyzeVars, secVars, facVars, scoreVars, topVars, traceVars, confVars, provVars, parVars, cbVars, retryVars, rerunVars>>

notTraceVars == <<genVars, analyzeVars, secVars, facVars, scoreVars, topVars, structVars, confVars, provVars, parVars, cbVars, retryVars, rerunVars>>

notConfVars == <<genVars, analyzeVars, secVars, facVars, scoreVars, topVars, structVars, traceVars, provVars, parVars, cbVars, retryVars, rerunVars>>

notProvVars == <<genVars, analyzeVars, secVars, facVars, scoreVars, topVars, structVars, traceVars, confVars, parVars, cbVars, retryVars, rerunVars>>

notParVars == <<genVars, analyzeVars, secVars, facVars, scoreVars, topVars, structVars, traceVars, confVars, provVars, cbVars, retryVars, rerunVars>>

notCbVars == <<genVars, analyzeVars, secVars, facVars, scoreVars, topVars, structVars, traceVars, confVars, provVars, parVars, retryVars, rerunVars>>

notRetryVars == <<genVars, analyzeVars, secVars, facVars, scoreVars, topVars, structVars, traceVars, confVars, provVars, parVars, cbVars, rerunVars>>

notRerunVars == <<genVars, analyzeVars, secVars, facVars, scoreVars, topVars, structVars, traceVars, confVars, provVars, parVars, cbVars, retryVars>>

-----------------------------------------------------------------------------
(* Bounds of the model *)

\* calls made on one generator object
MaxCalls == 3

\* requirements handed to one analysis run
MaxReqs == 2

\* detectors handed to one analysis run
MaxDetectors == 2

\* Risk objects created by all detectors during one analysis run
MaxTotalRisks == 3

\* detect_risks calls that raise during one analysis run
MaxFailures == 1

\* requirements handed to one SecurityDetector
MaxSecCalls == 2

\* requirements handed to one calculate_risk_scores call
MaxScoreReqs == 2

\* risks listed for one requirement in the map handed to calculate_risk_scores
MaxScoreRisks == 3

\* requirements known to one get_top_riskiest call
MaxTopReqs == 2

\* largest top_n asked of get_top_riskiest
MaxTopN == 2

\* raw lines of one file handed to the structure detector
MaxLines == 3

\* requirements handed to the traceability detector
MaxTraceCalls == 2

\* requirements handed to the conflict detector
MaxConflictCalls == 2

\* calls made on one configuration provider
MaxProviderCalls == 4

\* parse calls made on one requirement parser, and the items of one call
MaxParseCalls == 3

MaxParseLines == 2

\* calls made on one circuit breaker, and how far its clock runs
MaxBreakerCalls == 5

MaxTime == 3

\* the largest max_attempts of a retry manager, and the retry calls made on it
MaxAttempts == 3

MaxRetryCalls == 2

\* the risks one detector finds on one requirement
MaxFound == 1

\* the analyses run with the same factory
MaxRuns == 2

-----------------------------------------------------------------------------
(* Python string primitives *)

Lowers == "abcdefghijklmnopqrstuvwxyz"
Uppers == "ABCDEFGHIJKLMNOPQRSTUVWXYZ"

\* s[a:b] with Python's clamping, 1-based inclusive here
Slice(s, a, b) ==
    LET hi == IF b > Len(s) THEN Len(s) ELSE b
    IN  IF a > hi THEN "" ELSE SubSeq(s, a, hi)

CharAt(s, i) == SubSeq(s, i, i)

UpperTable == [c \in {CharAt(Lowers, i) : i \in 1..Len(Lowers)} |->
                  CharAt(Uppers, CHOOSE i \in 1..Len(Lowers) : CharAt(Lowers, i) = c)]

LowerTable == [c \in {CharAt(Uppers, i) : i \in 1..Len(Uppers)} |->
                  CharAt(Lowers, CHOOSE i \in 1..Len(Uppers) : CharAt(Uppers, i) = c)]

UpperChar(c) == IF c \in DOMAIN UpperTable THEN UpperTable[c] ELSE c

LowerChar(c) == IF c \in DOMAIN LowerTable THEN LowerTable[c] ELSE c

RECURSIVE Upper(_)
Upper(s) == IF Len(s) = 0 THEN "" ELSE UpperChar(CharAt(s, 1)) \o Upper(Slice(s, 2, Len(s)))

RECURSIVE Lower(_)
Lower(s) == IF Len(s) = 0 THEN "" ELSE LowerChar(CharAt(s, 1)) \o Lower(Slice(s, 2, Len(s)))

\* format(counter, "03d"): at least three digits, zero-padded on the left
Format03d(n) ==
    IF n < 10 THEN "00" \o ToString(n)
    ELSE IF n < 100 THEN "0" \o ToString(n)
    ELSE ToString(n)

\* dict.get(key, default)
DictGet(d, key, default) == IF key \in DOMAIN d THEN d[key] ELSE default

\* d[key] = value on a dict
DictSet(d, key, value) == [k \in DOMAIN d \cup {key} |-> IF k = key THEN value ELSE d[k]]

EmptyDict == [k \in {} |-> 0]

Whitespace == {" ", "\t", "\n", "\r"}

\* str.strip()
RECURSIVE Strip(_)
Strip(s) ==
    IF Len(s) = 0 THEN s
    ELSE IF CharAt(s, 1) \in Whitespace THEN Strip(Slice(s, 2, Len(s)))
    ELSE IF CharAt(s, Len(s)) \in Whitespace THEN Strip(Slice(s, 1, Len(s) - 1))
    ELSE s

\* sub in s
Contains(sub, s) ==
    \E i \in 1..(Len(s) - Len(sub) + 1) : Slice(s, i, i + Len(sub) - 1) = sub

-----------------------------------------------------------------------------
(* models/risk.py *)

RiskCategory == {"ambiguity", "missing_detail", "security", "conflict",
                 "performance", "availability"}

SeverityLevel == [low |-> 1, medium |-> 2, high |-> 3, critical |-> 4, blocker |-> 5]

\* requirement ids as the parser hands them out, in discovery order
RequirementIds == <<"R001", "R002", "R003", "R004">>

-----------------------------------------------------------------------------
(* utils/risk_id_generator.py *)

CounterKeyRequirementOnly(requirement_id, category) == requirement_id

\* key = f"{requirement_id}-{category.value}"
CounterKey(requirement_id, category) == requirement_id \o "-" \o category

CategoryPrefixFirstLetter(category) == Upper(Slice(category, 1, 1))

\* category.value.upper()[:3]
CategoryPrefix(category) == Slice(Upper(category), 1, 3)

\* self._counters[key] = self._counters.get(key, 0) + 1
Incremented(cnt, requirement_id, category) ==
    DictSet(cnt, CounterKey(requirement_id, category),
            DictGet(cnt, CounterKey(requirement_id, category), 0) + 1)

\* the identifier generate_id returns, given the counters after the increment
GeneratedId(cnt, requirement_id, category) ==
    requirement_id \o "-" \o CategoryPrefix(category) \o "-"
        \o Format03d(cnt[CounterKey(requirement_id, category)])

ResetKeeps(cnt) == cnt

\* self._counters.clear()
ResetCounters(cnt) == EmptyDict

GenReqIds == {RequirementIds[1], RequirementIds[2]}

TotalCalls == Len(log) + Len(replay_ids)

InitGen ==
    /\ counters = EmptyDict
    /\ fresh_counters = EmptyDict
    /\ log = <<>>
    /\ replay_ids = <<>>
    /\ fresh_ids = <<>>
    /\ gen_phase = "fresh"

IdleGen == InitGen

\* generate_id on the generator since its construction
GenerateId(requirement_id, category) ==
    /\ gen_phase = "fresh"
    /\ TotalCalls < MaxCalls
    /\ LET cnt == Incremented(counters, requirement_id, category)
       IN  /\ counters' = cnt
           /\ log' = Append(log, [requirement_id |-> requirement_id,
                                  category |-> category,
                                  id |-> GeneratedId(cnt, requirement_id, category)])
    /\ UNCHANGED <<fresh_counters, replay_ids, fresh_ids, gen_phase>>
    /\ UNCHANGED notGenVars

\* reset() on the used generator; a second generator is constructed to compare with
Reset ==
    /\ counters' = ResetCounters(counters)
    /\ fresh_counters' = EmptyDict
    /\ replay_ids' = <<>>
    /\ fresh_ids' = <<>>
    /\ gen_phase' = "reset"
    /\ UNCHANGED log
    /\ UNCHANGED notGenVars

\* the same generate_id call made on the reset generator and on the fresh one
Replay(requirement_id, category) ==
    /\ gen_phase = "reset"
    /\ TotalCalls < MaxCalls
    /\ LET cnt == Incremented(counters, requirement_id, category)
           fcnt == Incremented(fresh_counters, requirement_id, category)
       IN  /\ counters' = cnt
           /\ fresh_counters' = fcnt
           /\ replay_ids' = Append(replay_ids, GeneratedId(cnt, requirement_id, category))
           /\ fresh_ids' = Append(fresh_ids, GeneratedId(fcnt, requirement_id, category))
    /\ UNCHANGED <<log, gen_phase>>
    /\ UNCHANGED notGenVars

NextGen ==
    \/ \E r \in GenReqIds, c \in RiskCategory : GenerateId(r, c)
    \/ Reset
    \/ \E r \in GenReqIds, c \in RiskCategory : Replay(r, c)

-----------------------------------------------------------------------------
(* factories/risk_factory.py, detectors/base.py *)

RiskWithRiskIdAsRequirement(risk_id, requirement, category, severity) ==
    [id |-> risk_id, category |-> category, severity |-> severity,
     requirement_id |-> risk_id, line_number |-> requirement.line_number]

\* the Risk(...) construction of RiskFactory.create_risk
Risk(risk_id, requirement, category, severity) ==
    [id |-> risk_id, category |-> category, severity |-> severity,
     requirement_id |-> requirement.id, line_number |-> requirement.line_number]

\* BaseRiskDetector.create_risk with severity=None: the detector block's
\* 'severity', 'medium' when the block names none
DefaultSeverity == SeverityLevel["medium"]

\* n calls of create_risk by one detector on one requirement: each mints an id
\* from the detector's own generator, then builds the Risk
RECURSIVE CreateRisks(_, _, _, _)
CreateRisks(cnt, requirement, category, n) ==
    IF n = 0 THEN [counters |-> cnt, risks |-> <<>>]
    ELSE LET before == CreateRisks(cnt, requirement, category, n - 1)
             after == Incremented(before.counters, requirement.id, category)
         IN  [counters |-> after,
              risks |-> Append(before.risks,
                               Risk(GeneratedId(after, requirement.id, category),
                                    requirement, category, DefaultSeverity))]

-----------------------------------------------------------------------------
(* utils/detector_error_handler.py, analyzer.py *)

HandleDetectorErrorKeepsPartial(partial) == partial

\* DetectorErrorHandler.handle_detector_error: logs, returns []
HandleDetectorError(partial) == <<>>

InitialDictLazy(reqs) == EmptyDict

\* risks_by_requirement = {req.id: [] for req in requirements}
InitialDict(reqs) == [k \in {reqs[i].id : i \in 1..Len(reqs)} |-> <<>>]

ExtendFront(list, risks) == risks \o list

\* list.extend(risks)
Extend(list, risks) == list \o risks

\* with a key the dict lacks, d[key].extend(...) raises KeyError
ExtendEntry(d, key, risks) ==
    IF key \in DOMAIN d THEN [d EXCEPT ![key] = Extend(d[key], risks)] ELSE d

\* detector lists as the detector factory builds them: one cached detector per
\* type, so no category twice
AnalyzeCategories == {"ambiguity", "availability"}

\* the sequences over S of length at most n that repeat no element
RECURSIVE InjectiveSeqs(_, _)
InjectiveSeqs(S, n) ==
    IF n = 0 THEN {<<>>}
    ELSE LET shorter == InjectiveSeqs(S, n - 1)
         IN  shorter \cup UNION {{Append(q, x) : x \in S \ {q[i] : i \in 1..Len(q)}} :
                                  q \in shorter}

DetectorLists == InjectiveSeqs(AnalyzeCategories, MaxDetectors)

\* the first n requirements of a parsed document, one per line
RequirementList(n) == [i \in 1..n |-> [id |-> RequirementIds[i], line_number |-> i]]

InitAnalyze ==
    /\ \E n \in 0..MaxReqs : n <= Len(RequirementIds) /\ requirements = RequirementList(n)
    /\ detectors \in DetectorLists
    /\ det_counters = [j \in 1..Len(detectors) |-> EmptyDict]
    /\ risks_by_requirement = EmptyDict
    /\ req_index = 0
    /\ det_index = 0
    /\ analyze_pc = "idle"
    /\ returned = <<>>

IdleAnalyze ==
    /\ requirements = <<>>
    /\ detectors = <<>>
    /\ det_counters = <<>>
    /\ risks_by_requirement = EmptyDict
    /\ req_index = 0
    /\ det_index = 0
    /\ analyze_pc = "idle"
    /\ returned = <<>>

RECURSIVE SumLen(_)
SumLen(calls) == IF calls = <<>> THEN 0
                 ELSE Len(calls[1].created) + SumLen(Tail(calls))

RisksCreated == SumLen(returned)

Failures == Cardinality({k \in 1..Len(returned) : returned[k].raised})

\* analyze_requirements up to the loops: the error handler defaulted, the dict
\* created with every requirement id
AnalyzeStart ==
    /\ analyze_pc = "idle"
    /\ risks_by_requirement' = InitialDict(requirements)
    /\ req_index' = 1
    /\ det_index' = 1
    /\ analyze_pc' = "loop"
    /\ UNCHANGED <<requirements, detectors, det_counters, returned>>
    /\ UNCHANGED notAnalyzeVars

LoopDone == req_index > Len(requirements) \/ Len(detectors) = 0

\* one pass of the inner loop body: detect_risks of detectors[det_index] on
\* requirements[req_index] creates n risks and then either returns them or
\* raises; a raise goes to the error handler; no risk_filter is passed (the
\* call of main.py and of the service), so the filter branch is not taken;
\* non-empty risks extend the requirement's list
DetectStep(n, raised) ==
    /\ analyze_pc = "loop"
    /\ ~LoopDone
    /\ RisksCreated + n <= MaxTotalRisks
    /\ raised => Failures < MaxFailures
    /\ LET requirement == requirements[req_index]
           category == detectors[det_index]
           made == CreateRisks(det_counters[det_index], requirement, category, n)
           risks == IF raised THEN HandleDetectorError(made.risks) ELSE made.risks
       IN  /\ det_counters' = [det_counters EXCEPT ![det_index] = made.counters]
           /\ risks_by_requirement' =
                  IF risks # <<>>
                  THEN ExtendEntry(risks_by_requirement, requirement.id, risks)
                  ELSE risks_by_requirement
           /\ returned' = Append(returned, [req |-> req_index, det |-> det_index,
                                            raised |-> raised, created |-> made.risks])
    /\ IF det_index < Len(detectors)
       THEN /\ det_index' = det_index + 1
            /\ req_index' = req_index
       ELSE /\ det_index' = 1
            /\ req_index' = req_index + 1
    /\ UNCHANGED <<requirements, detectors, analyze_pc>>
    /\ UNCHANGED notAnalyzeVars

\* return risks_by_requirement
AnalyzeReturn ==
    /\ analyze_pc = "loop"
    /\ LoopDone
    /\ analyze_pc' = "done"
    /\ UNCHANGED <<requirements, detectors, det_counters, risks_by_requirement,
                   req_index, det_index, returned>>
    /\ UNCHANGED notAnalyzeVars

NextAnalyze ==
    \/ AnalyzeStart
    \/ \E n \in 0..MaxTotalRisks, raised \in BOOLEAN : DetectStep(n, raised)
    \/ AnalyzeReturn

-----------------------------------------------------------------------------
(* utils/text_normalizer.py *)

\* TextNormalizer.normalize_text
NormalizeText(text, case_sensitive) ==
    Strip(IF ~case_sensitive THEN Lower(text) ELSE text)

\* TextNormalizer.contains_keywords: the keywords, as configured and in their
\* configured order, whose normalised form occurs in the normalised text
RECURSIVE ContainsKeywords(_, _, _)
ContainsKeywords(text, keywords, case_sensitive) ==
    IF keywords = <<>> THEN <<>>
    ELSE LET rest == ContainsKeywords(text, SubSeq(keywords, 1, Len(keywords) - 1),
                                      case_sensitive)
             keyword == keywords[Len(keywords)]
         IN  IF Contains(NormalizeText(keyword, case_sensitive),
                         NormalizeText(text, case_sensitive))
             THEN Append(rest, keyword)
             ELSE rest

-----------------------------------------------------------------------------
(* detectors/security_detector.py *)

FoundTriggersFirstOnly(text, triggers, case_sensitive) ==
    LET found == ContainsKeywords(text, triggers, case_sensitive)
    IN  IF found = <<>> THEN <<>> ELSE <<found[1]>>

\* found_triggers = self.contains_keywords(requirement.text, triggers)
FoundTriggers(text, triggers, case_sensitive) ==
    ContainsKeywords(text, triggers, case_sensitive)

\* BaseRiskDetector.get_rule_config: {} for a rule the block does not name, and
\* rule_config.get('triggers', []), rule_config.get('required_with', [])
RuleConfig(rules, rule_name) ==
    DictGet(rules, rule_name, [triggers |-> <<>>, required_with |-> <<>>])

\* the loop shared by the four checks: for each found trigger, a risk with the
\* trigger as evidence unless a required_with phrase is in the text
RECURSIVE RisksForTriggers(_, _, _, _, _, _)
RisksForTriggers(cnt, requirement, found, required_with, case_sensitive, describe) ==
    IF found = <<>> THEN [counters |-> cnt, risks |-> <<>>]
    ELSE LET before == RisksForTriggers(cnt, requirement, SubSeq(found, 1, Len(found) - 1),
                                        required_with, case_sensitive, describe)
             trigger == found[Len(found)]
             has_requirements == ContainsKeywords(requirement.text, required_with,
                                                  case_sensitive)
             after == Incremented(before.counters, requirement.id, "security")
         IN  IF has_requirements = <<>>
             THEN [counters |-> after,
                   risks |-> Append(before.risks,
                                    Risk(GeneratedId(after, requirement.id, "security"),
                                         requirement, "security", DefaultSeverity)
                                    @@ [evidence |-> trigger,
                                        description |-> describe[1] \o trigger \o describe[2]])]
             ELSE before

TriggerCheck(cnt, requirement, rule_config, case_sensitive, describe) ==
    IF rule_config.triggers = <<>> THEN [counters |-> cnt, risks |-> <<>>]
    ELSE RisksForTriggers(cnt, requirement,
                          FoundTriggers(requirement.text, rule_config.triggers, case_sensitive),
                          rule_config.required_with, case_sensitive, describe)

DetectMissingAuthentication(cnt, requirement, rules, case_sensitive) ==
    TriggerCheck(cnt, requirement, RuleConfig(rules, "missing_authentication"), case_sensitive,
                 <<"User access feature '", "' mentioned without authentication requirements">>)

DetectMissingAuthorization(cnt, requirement, rules, case_sensitive) ==
    TriggerCheck(cnt, requirement, RuleConfig(rules, "missing_authorization"), case_sensitive,
                 <<"Administrative action '", "' mentioned without authorization requirements">>)

DetectMissingDataProtection(cnt, requirement, rules, case_sensitive) ==
    TriggerCheck(cnt, requirement, RuleConfig(rules, "missing_data_protection"), case_sensitive,
                 <<"Data storage '", "' mentioned without protection requirements">>)

DetectInsecureCommunication(cnt, requirement, rules, case_sensitive) ==
    TriggerCheck(cnt, requirement, RuleConfig(rules, "insecure_communication"), case_sensitive,
                 <<"Data transmission '", "' mentioned without security requirements">>)

SecurityRuleNames == {"missing_authentication", "missing_authorization",
                      "missing_data_protection", "insecure_communication"}

\* rule blocks a rule document may give each of the four rules
RuleChoices ==
    [missing_authentication |->
        {[triggers |-> <<"login", "access">>, required_with |-> <<"authenticate", "password">>]},
     missing_authorization |->
        {[triggers |-> <<"admin">>, required_with |-> <<"authorized", "permission">>],
         [triggers |-> <<"admin", "delete", "modify">>,
          required_with |-> <<"authorized", "permission">>]},
     missing_data_protection |->
        {[triggers |-> <<"store", "database">>, required_with |-> <<"encrypt">>]},
     insecure_communication |->
        {[triggers |-> <<"send", "transmit">>, required_with |-> <<"https", "encrypted">>]}]

\* the 'rules' of the security block: any subset of the four rules, each with
\* one of its blocks
SecurityRuleDocuments ==
    UNION {[names -> UNION {RuleChoices[n] : n \in names}] : names \in SUBSET SecurityRuleNames}

SecurityRules == {d \in SecurityRuleDocuments : \A n \in DOMAIN d : d[n] \in RuleChoices[n]}

SecurityTexts == {"Admin users shall delete records",
                  "Only authorized administrators can delete records",
                  "Users login to store and send data",
                  "The system shall display a banner"}

InitSecurity ==
    /\ sec_rules \in SecurityRules
    /\ sec_case_sensitive \in BOOLEAN
    /\ sec_counters = EmptyDict
    /\ sec_calls = 0
    /\ sec_last = [requirement |-> [id |-> "", line_number |-> 0, text |-> ""],
                   auth_risks |-> <<>>, authz_risks |-> <<>>, data_risks |-> <<>>,
                   comm_risks |-> <<>>, risks |-> <<>>]

IdleSecurity ==
    /\ sec_rules = EmptyDict
    /\ sec_case_sensitive = FALSE
    /\ sec_counters = EmptyDict
    /\ sec_calls = 0
    /\ sec_last = [requirement |-> [id |-> "", line_number |-> 0, text |-> ""],
                   auth_risks |-> <<>>, authz_risks |-> <<>>, data_risks |-> <<>>,
                   comm_risks |-> <<>>, risks |-> <<>>]

\* SecurityDetector.detect_risks on the next requirement of the document
SecurityDetectRisks(text) ==
    /\ sec_calls < MaxSecCalls
    /\ sec_calls < Len(RequirementIds)
    /\ LET requirement == [id |-> RequirementIds[sec_calls + 1],
                           line_number |-> sec_calls + 1, text |-> text]
           auth == DetectMissingAuthentication(sec_counters, requirement, sec_rules,
                                               sec_case_sensitive)
           authz == DetectMissingAuthorization(auth.counters, requirement, sec_rules,
                                               sec_case_sensitive)
           data == DetectMissingDataProtection(authz.counters, requirement, sec_rules,
                                               sec_case_sensitive)
           comm == DetectInsecureCommunication(data.counters, requirement, sec_rules,
                                               sec_case_sensitive)
       IN  /\ sec_counters' = comm.counters
           /\ sec_last' = [requirement |-> requirement,
                           auth_risks |-> auth.risks, authz_risks |-> authz.risks,
                           data_risks |-> data.risks, comm_risks |-> comm.risks,
                           risks |-> auth.risks \o authz.risks \o data.risks \o comm.risks]
    /\ sec_calls' = sec_calls + 1
    /\ UNCHANGED <<sec_rules, sec_case_sensitive>>
    /\ UNCHANGED notSecVars

NextSecurity == \E text \in SecurityTexts : SecurityDetectRisks(text)

-----------------------------------------------------------------------------
(* factories/detector_factory.py, detectors/base.py, config *)

\* RiskDetectorFactory._detector_registry, in its insertion order
DetectorRegistry == <<"ambiguity", "missing_detail", "security", "conflict",
                      "performance", "availability">>

RegistryTypes == {DetectorRegistry[i] : i \in 1..Len(DetectorRegistry)}

\* the detector blocks of the rule document, in document order
ConfiguredDetectors == DetectorRegistry \o <<"traceability", "scope">>

\* JsonFileConfigurationProvider.is_detector_enabled:
\* get_detector_config(name).get('enabled', False)
IsDetectorEnabled(config, detector_name) == DictGet(config, detector_name, FALSE)

SetupDetectorNeverRaises(config, detector_name) == "None"

\* BaseRiskDetector._setup_detector: what the constructor raises
SetupDetector(config, detector_name) ==
    IF ~IsDetectorEnabled(config, detector_name) THEN "ValueError" ELSE "None"

\* RiskDetectorFactory.create_detector: the exception raised ("None" when it
\* returns the detector), the cache afterwards, and whether a construction was
\* attempted
CreateDetectorResult(config, cache, detector_type) ==
    IF detector_type \notin RegistryTypes
    THEN [raised |-> "ValueError", cache |-> cache, constructed |-> FALSE]
    ELSE IF detector_type \in cache
    THEN [raised |-> "None", cache |-> cache, constructed |-> FALSE]
    ELSE LET raised == SetupDetector(config, detector_type)
         IN  IF raised # "None"
             THEN [raised |-> raised, cache |-> cache, constructed |-> TRUE]
             ELSE [raised |-> "None", cache |-> cache \cup {detector_type},
                   constructed |-> TRUE]

\* the loop of create_all_detectors and create_enabled_detectors over the
\* given types: try create_detector, on any exception print a warning and go on
RECURSIVE CreateEach(_, _, _)
CreateEach(config, cache, types) ==
    IF types = <<>>
    THEN [cache |-> cache, detectors |-> <<>>, warnings |-> <<>>, attempted |-> {}]
    ELSE LET before == CreateEach(config, cache, SubSeq(types, 1, Len(types) - 1))
             detector_type == types[Len(types)]
             made == CreateDetectorResult(config, before.cache, detector_type)
         IN  [cache |-> made.cache,
              detectors |-> IF made.raised = "None"
                            THEN Append(before.detectors, detector_type)
                            ELSE before.detectors,
              warnings |-> IF made.raised = "None"
                           THEN before.warnings
                           ELSE Append(before.warnings, detector_type),
              attempted |-> IF made.constructed
                            THEN before.attempted \cup {detector_type}
                            ELSE before.attempted]

\* the types create_enabled_detectors tries: if detector_config.get('enabled', False)
RECURSIVE EnabledOf(_, _)
EnabledOf(config, types) ==
    IF types = <<>> THEN <<>>
    ELSE LET rest == EnabledOf(config, SubSeq(types, 1, Len(types) - 1))
         IN  IF IsDetectorEnabled(config, types[Len(types)])
             THEN Append(rest, types[Len(types)])
             ELSE rest

NoCall == [call |-> "none", detector_type |-> "", attempted |-> {}, raised |-> "None",
           detectors |-> <<>>, warnings |-> <<>>]

InitFactory ==
    /\ fac_config \in [{ConfiguredDetectors[i] : i \in 1..Len(ConfiguredDetectors)} -> BOOLEAN]
    /\ fac_cache = {}
    /\ fac_last = NoCall

IdleFactory ==
    /\ fac_config = EmptyDict
    /\ fac_cache = {}
    /\ fac_last = NoCall

\* factory.create_detector(detector_type), the name given in lower case
CreateDetector(detector_type) ==
    /\ LET made == CreateDetectorResult(fac_config, fac_cache, detector_type)
       IN  /\ fac_cache' = made.cache
           /\ fac_last' = [call |-> "create_detector", detector_type |-> detector_type,
                           attempted |-> IF made.constructed THEN {detector_type} ELSE {},
                           raised |-> made.raised,
                           detectors |-> IF made.raised = "None" THEN <<detector_type>>
                                         ELSE <<>>,
                           warnings |-> <<>>]
    /\ UNCHANGED fac_config
    /\ UNCHANGED notFacVars

\* factory.create_all_detectors()
CreateAllDetectors ==
    /\ LET made == CreateEach(fac_config, fac_cache, DetectorRegistry)
       IN  /\ fac_cache' = made.cache
           /\ fac_last' = [call |-> "create_all_detectors", detector_type |-> "",
                           attempted |-> made.attempted, raised |-> "None",
                           detectors |-> made.detectors, warnings |-> made.warnings]
    /\ UNCHANGED fac_config
    /\ UNCHANGED notFacVars

\* factory.create_enabled_detectors(), the rule document readable
CreateEnabledDetectors ==
    /\ LET made == CreateEach(fac_config, fac_cache, EnabledOf(fac_config, ConfiguredDetectors))
       IN  /\ fac_cache' = made.cache
           /\ fac_last' = [call |-> "create_enabled_detectors", detector_type |-> "",
                           attempted |-> made.attempted, raised |-> "None",
                           detectors |-> made.detectors, warnings |-> made.warnings]
    /\ UNCHANGED fac_config
    /\ UNCHANGED notFacVars

NextFactory ==
    \/ \E t \in RegistryTypes \cup {"traceability", "scope"} : CreateDetector(t)
    \/ CreateAllDetectors
    \/ CreateEnabledDetectors

-----------------------------------------------------------------------------
(* scoring.py *)

\* Risk.get_severity_score
GetSeverityScore(risk) == risk.severity

RECURSIVE SumSeverity(_)
SumSeverity(risks) ==
    IF risks = <<>> THEN 0
    ELSE GetSeverityScore(risks[1]) + SumSeverity(Tail(risks))

RoundedAverageTruncated(total_score, count) == (100 * total_score) \div count

\* round(total_score / count, 2), in hundredths; a tie (a quotient ending in
\* ...5 thousandths is an exact binary fraction) goes to the even hundredth
RoundedAverage(total_score, count) ==
    LET q == (100 * total_score) \div count
        r == (100 * total_score) % count
    IN  IF 2 * r < count THEN q
        ELSE IF 2 * r > count THEN q + 1
        ELSE IF q % 2 = 0 THEN q ELSE q + 1

LookupRisksSubscript(risks_by_req, req_id) ==
    IF req_id \in DOMAIN risks_by_req
    THEN [raised |-> "None", risks |-> risks_by_req[req_id]]
    ELSE [raised |-> "KeyError", risks |-> <<>>]

\* risks_by_requirement.get(req_id, [])
LookupRisks(risks_by_req, req_id) ==
    [raised |-> "None", risks |-> DictGet(risks_by_req, req_id, <<>>)]

\* the record calculate_risk_scores stores for one requirement; avg_severity
\* in hundredths
ScoreRecord(risks) ==
    IF risks = <<>>
    THEN [total_score |-> 0, avg_severity |-> 0, risk_count |-> 0, risks |-> <<>>]
    ELSE [total_score |-> SumSeverity(risks),
          avg_severity |-> RoundedAverage(SumSeverity(risks), Len(risks)),
          risk_count |-> Len(risks),
          risks |-> risks]

\* calculate_risk_scores(requirements, risks_by_requirement): the exception
\* raised ("None" when it returns) and the scores dict
RECURSIVE CalculateRiskScores(_, _)
CalculateRiskScores(reqs, risks_by_req) ==
    IF reqs = <<>> THEN [raised |-> "None", scores |-> EmptyDict]
    ELSE LET before == CalculateRiskScores(SubSeq(reqs, 1, Len(reqs) - 1), risks_by_req)
             req_id == reqs[Len(reqs)].id
             found == LookupRisks(risks_by_req, req_id)
         IN  IF before.raised # "None" THEN before
             ELSE IF found.raised # "None"
             THEN [raised |-> found.raised, scores |-> before.scores]
             ELSE [raised |-> "None",
                   scores |-> DictSet(before.scores, req_id, ScoreRecord(found.risks))]

\* severities of the risks handed to the scorer
ScoreSeverities == {SeverityLevel["low"], SeverityLevel["medium"]}

\* the severities of the risks one requirement can have in the map, in list
\* order; the lists tried are the ascending ones
SeverityLists ==
    UNION {{sev \in [1..n -> ScoreSeverities] : \A k \in 1..(n - 1) : sev[k] <= sev[k + 1]} :
           n \in 0..MaxScoreRisks}

\* the risk list of a requirement whose risks have the given severities
RiskLists(requirement, sev) ==
    [k \in 1..Len(sev) |-> Risk(requirement.id \o "-AMB-" \o Format03d(k), requirement,
                               "ambiguity", sev[k])]

\* the maps the scorer can be handed: some requirements without a key
RiskMaps ==
    LET all == RequirementList(MaxScoreReqs)
        ids == {all[i].id : i \in 1..Len(all)}
        ReqOf(id) == all[CHOOSE i \in 1..Len(all) : all[i].id = id]
    IN  UNION {{[id \in keys |-> RiskLists(ReqOf(id), f[id])] :
                    f \in [keys -> SeverityLists]} : keys \in SUBSET ids}

InitScore ==
    /\ \E n \in 0..MaxScoreReqs : score_requirements = RequirementList(n)
    /\ score_risks \in RiskMaps
    /\ scores = EmptyDict
    /\ score_raised = "None"
    /\ score_pc = "start"

IdleScore ==
    /\ score_requirements = <<>>
    /\ score_risks = EmptyDict
    /\ scores = EmptyDict
    /\ score_raised = "None"
    /\ score_pc = "start"

\* one call calculate_risk_scores(score_requirements, score_risks)
Score ==
    /\ score_pc = "start"
    /\ LET out == CalculateRiskScores(score_requirements, score_risks)
       IN  /\ scores' = out.scores
           /\ score_raised' = out.raised
    /\ score_pc' = "done"
    /\ UNCHANGED <<score_requirements, score_risks>>
    /\ UNCHANGED notScoreVars

NextScore == Score

-----------------------------------------------------------------------------
(* scoring.py: get_top_riskiest *)

Digits == "0123456789"

\* ord(c) for the characters of requirement ids, up to a constant
Ord(c) == CHOOSE i \in 1..Len(Digits \o Uppers) : CharAt(Digits \o Uppers, i) = c

\* a < b on str
RECURSIVE StrLess(_, _)
StrLess(a, b) ==
    IF Len(b) = 0 THEN FALSE
    ELSE IF Len(a) = 0 THEN TRUE
    ELSE IF CharAt(a, 1) = CharAt(b, 1) THEN StrLess(Slice(a, 2, Len(a)), Slice(b, 2, Len(b)))
    ELSE Ord(CharAt(a, 1)) < Ord(CharAt(b, 1))

SortKeyLessNoId(x, y) ==
    \/ x.total_score > y.total_score
    \/ x.total_score = y.total_score /\ x.risk_count > y.risk_count

\* key(x) < key(y) for key = (-total_score, -risk_count, requirement_id)
SortKeyLess(x, y) ==
    \/ x.total_score > y.total_score
    \/ x.total_score = y.total_score /\ x.risk_count > y.risk_count
    \/ /\ x.total_score = y.total_score
       /\ x.risk_count = y.risk_count
       /\ StrLess(x.requirement_id, y.requirement_id)

\* list.sort(key=...): stable, an element goes after those whose key is not greater
RECURSIVE SortByKey(_)
SortByKey(list) ==
    IF list = <<>> THEN <<>>
    ELSE LET sorted == SortByKey(SubSeq(list, 1, Len(list) - 1))
             x == list[Len(list)]
             before == Cardinality({i \in 1..Len(sorted) : ~SortKeyLess(x, sorted[i])})
         IN  SubSeq(sorted, 1, before) \o <<x>> \o SubSeq(sorted, before + 1, Len(sorted))

TruncateNever(list, n) == list

\* list[:n], n >= 0
Truncate(list, n) == IF n >= Len(list) THEN list ELSE SubSeq(list, 1, n)

\* req_lookup = {req.id: req for req in requirements}
ReqLookup(reqs) ==
    [id \in {reqs[i].id : i \in 1..Len(reqs)} |->
        reqs[CHOOSE i \in 1..Len(reqs) :
                 reqs[i].id = id /\ \A j \in (i + 1)..Len(reqs) : reqs[j].id # id]]

\* the loop over risk_scores.items(): an entry for every item whose
\* requirement is in req_lookup
RECURSIVE ScoredRequirements(_, _)
ScoredRequirements(req_lookup, items) ==
    IF items = <<>> THEN <<>>
    ELSE LET before == ScoredRequirements(req_lookup, SubSeq(items, 1, Len(items) - 1))
             item == items[Len(items)]
         IN  IF item.id \in DOMAIN req_lookup
             THEN Append(before, [requirement_id |-> item.id,
                                  total_score |-> item.data.total_score,
                                  avg_severity |-> item.data.avg_severity,
                                  risk_count |-> item.data.risk_count,
                                  requirement |-> req_lookup[item.id],
                                  risks |-> item.data.risks])
             ELSE before

\* get_top_riskiest(requirements, risk_scores, top_n)
GetTopRiskiest(reqs, items, n) ==
    Truncate(SortByKey(ScoredRequirements(ReqLookup(reqs), items)), n)

\* the requirements a call can know, in any order
TopRequirementLists ==
    LET all == RequirementList(MaxTopReqs)
    IN  InjectiveSeqs({all[i] : i \in 1..Len(all)}, MaxTopReqs)

\* severities of the risks behind the score records tried
TopSeverityLists == {<<>>, <<3>>, <<1, 2>>, <<2, 3>>}

\* the score dicts a call can be handed: for some of the requirements, in any
\* insertion order, a record as calculate_risk_scores builds it
TopScoreItems ==
    UNION {{[i \in 1..Len(reqs) |->
                [id |-> reqs[i].id, data |-> ScoreRecord(RiskLists(reqs[i], sev[i]))]] :
            sev \in [1..Len(reqs) -> TopSeverityLists]} : reqs \in TopRequirementLists}

InitTop ==
    /\ top_requirements \in TopRequirementLists
    /\ top_scores \in TopScoreItems
    /\ top_n = 0
    /\ top_result = <<>>
    /\ top_pc = "start"

IdleTop ==
    /\ top_requirements = <<>>
    /\ top_scores = <<>>
    /\ top_n = 0
    /\ top_result = <<>>
    /\ top_pc = "start"

\* one call get_top_riskiest(top_requirements, risk_scores, n)
TopRiskiest(n) ==
    /\ top_pc = "start"
    /\ top_n' = n
    /\ top_result' = GetTopRiskiest(top_requirements, top_scores, n)
    /\ top_pc' = "done"
    /\ UNCHANGED <<top_requirements, top_scores>>
    /\ UNCHANGED notTopVars

NextTop == \E n \in 0..MaxTopN : TopRiskiest(n)

-----------------------------------------------------------------------------
(* re: the part of the pattern language the structure detector uses *)

StartsWith(s, prefix) == Len(prefix) <= Len(s) /\ SubSeq(s, 1, Len(prefix)) = prefix

\* the atom at the head of a pattern text: its token and the text it took
Atom(src) ==
    LET c == CharAt(src, 1)
    IN  IF c = "^" THEN [kind |-> "start", arg |-> "", len |-> 1]
        ELSE IF c = "$" THEN [kind |-> "end", arg |-> "", len |-> 1]
        ELSE IF c = "." THEN [kind |-> "any", arg |-> "", len |-> 1]
        ELSE IF c = "\\"
        THEN LET e == CharAt(src, 2)
             IN  IF e = "s" THEN [kind |-> "space", arg |-> "", len |-> 2]
                 ELSE IF e = "d" THEN [kind |-> "digit", arg |-> "", len |-> 2]
                 ELSE [kind |-> "lit", arg |-> e, len |-> 2]
        ELSE IF c = "["
        THEN LET close == CHOOSE k \in 2..Len(src) :
                              CharAt(src, k) = "]" /\ \A h \in 2..(k - 1) : CharAt(src, h) # "]"
             IN  [kind |-> "class", arg |-> SubSeq(src, 2, close - 1), len |-> close]
        ELSE [kind |-> "lit", arg |-> c, len |-> 1]

\* re.compile: the pattern text as a sequence of atoms, each with its
\* quantifier ("1" when it has none); a '?' after a quantifier makes it lazy
RECURSIVE Compile(_)
Compile(src) ==
    IF Len(src) = 0 THEN <<>>
    ELSE LET a == Atom(src)
             after == Slice(src, a.len + 1, Len(src))
             quantified == a.kind \notin {"start", "end"} /\ Len(after) > 0
                               /\ CharAt(after, 1) \in {"+", "*", "?"}
             q == IF quantified THEN CharAt(after, 1) ELSE "1"
             lazy == quantified /\ Len(after) > 1 /\ CharAt(after, 2) = "?"
             taken == (IF quantified THEN 1 ELSE 0) + (IF lazy THEN 1 ELSE 0)
         IN  <<[kind |-> a.kind, arg |-> a.arg, q |-> q]>>
                 \o Compile(Slice(after, taken + 1, Len(after)))

\* one character against one atom, under re.IGNORECASE
Fits(t, c) ==
    CASE t.kind = "lit" -> LowerChar(c) = LowerChar(t.arg)
      [] t.kind = "space" -> c \in Whitespace
      [] t.kind = "digit" -> \E k \in 1..Len(Digits) : CharAt(Digits, k) = c
      [] t.kind = "any" -> c # "\n"
      [] t.kind = "class" -> \E k \in 1..Len(t.arg) : LowerChar(CharAt(t.arg, k)) = LowerChar(c)
      [] OTHER -> FALSE

\* whether atoms i.. of the pattern match the string from position j on
RECURSIVE MatchAt(_, _, _, _)
MatchAt(p, i, s, j) ==
    IF i > Len(p) THEN TRUE
    ELSE LET t == p[i]
             fits == j <= Len(s) /\ Fits(t, CharAt(s, j))
         IN  CASE t.kind = "start" -> j = 1 /\ MatchAt(p, i + 1, s, j)
               [] t.kind = "end" ->
                      /\ \/ j = Len(s) + 1
                         \/ j = Len(s) /\ CharAt(s, j) = "\n"
                      /\ MatchAt(p, i + 1, s, j)
               [] OTHER ->
                      CASE t.q = "1" -> fits /\ MatchAt(p, i + 1, s, j + 1)
                        [] t.q = "?" -> MatchAt(p, i + 1, s, j)
                                            \/ (fits /\ MatchAt(p, i + 1, s, j + 1))
                        [] t.q = "*" -> MatchAt(p, i + 1, s, j)
                                            \/ (fits /\ MatchAt(p, i, s, j + 1))
                        [] t.q = "+" -> fits /\ (MatchAt(p, i + 1, s, j + 1)
                                                     \/ MatchAt(p, i, s, j + 1))

\* re.match(pattern, line, re.IGNORECASE) is not None
ReMatch(pattern, line) == MatchAt(pattern, 1, line, 1)

-----------------------------------------------------------------------------
(* requirement_structure_detector.py *)

RequirementType == [USER_STORY |-> "user_story", FUNCTIONAL |-> "functional",
                    NON_FUNCTIONAL |-> "non_functional", HEADER |-> "header",
                    SEPARATOR |-> "separator", UNKNOWN |-> "unknown"]

user_story_patterns == <<"^As\\s+a\\s+.*?,\\s*$",
                         "^I\\s+want\\s+.*?,\\s*$",
                         "^so\\s+that\\s+.*?\\.?\\s*$">>

functional_patterns == <<"^The\\s+system\\s+shall\\s+.*?\\.?\\s*$",
                         "^The\\s+application\\s+must\\s+.*?\\.?\\s*$",
                         "^The\\s+system\\s+will\\s+.*?\\.?\\s*$">>

non_functional_patterns == <<"^Performance\\s*[-:]\\s*.*?\\.?\\s*$",
                             "^Usability\\s*[-:]\\s*.*?\\.?\\s*$",
                             "^Reliability\\s*[-:]\\s*.*?\\.?\\s*$",
                             "^Scalability\\s*[-:]\\s*.*?\\.?\\s*$",
                             "^Security\\s*[-:]\\s*.*?\\.?\\s*$",
                             "^Availability\\s*[-:]\\s*.*?\\.?\\s*$",
                             "^Maintainability\\s*[-:]\\s*.*?\\.?\\s*$">>

header_patterns == <<"^#+\\s+.*?$", "^##+\\s+.*?$", "^\\d+\\.\\s+.*?$", "^###\\s+.*?$">>

separator_patterns == <<"^---+$", "^===+$", "^___+$", "^\\*\\*\\*+$">>

Compiled(patterns) == [i \in 1..Len(patterns) |-> Compile(patterns[i])]

UserStoryCompiled == Compiled(user_story_patterns)

FunctionalCompiled == Compiled(functional_patterns)

NonFunctionalCompiled == Compiled(non_functional_patterns)

HeaderCompiled == Compiled(header_patterns)

SeparatorCompiled == Compiled(separator_patterns)

\* any(re.match(pattern, line, re.IGNORECASE) for pattern in patterns)
MatchesAny(compiled, line) == \E i \in 1..Len(compiled) : ReMatch(compiled[i], line)

DetectRequirementTypeNoHeader(raw) ==
    LET line == Strip(raw)
    IN  IF MatchesAny(SeparatorCompiled, line) THEN RequirementType.SEPARATOR
        ELSE IF MatchesAny(UserStoryCompiled, line) THEN RequirementType.USER_STORY
        ELSE IF MatchesAny(FunctionalCompiled, line) THEN RequirementType.FUNCTIONAL
        ELSE IF MatchesAny(NonFunctionalCompiled, line) THEN RequirementType.NON_FUNCTIONAL
        ELSE RequirementType.UNKNOWN

\* detect_requirement_type(line)
DetectRequirementType(raw) ==
    LET line == Strip(raw)
    IN  IF MatchesAny(SeparatorCompiled, line) THEN RequirementType.SEPARATOR
        ELSE IF MatchesAny(HeaderCompiled, line) THEN RequirementType.HEADER
        ELSE IF MatchesAny(UserStoryCompiled, line) THEN RequirementType.USER_STORY
        ELSE IF MatchesAny(FunctionalCompiled, line) THEN RequirementType.FUNCTIONAL
        ELSE IF MatchesAny(NonFunctionalCompiled, line) THEN RequirementType.NON_FUNCTIONAL
        ELSE RequirementType.UNKNOWN

\* str.split(): the maximal runs of non-whitespace characters
RECURSIVE Split(_)
Split(s) ==
    IF Len(s) = 0 THEN <<>>
    ELSE IF CharAt(s, 1) \in Whitespace THEN Split(Slice(s, 2, Len(s)))
    ELSE LET stops == {k \in 1..Len(s) : CharAt(s, k) \in Whitespace}
             word_end == IF stops = {} THEN Len(s)
                         ELSE (CHOOSE k \in stops : \A h \in stops : k <= h) - 1
         IN  <<SubSeq(s, 1, word_end)>> \o Split(Slice(s, word_end + 1, Len(s)))

\* str.islower() of one character
IsLower(c) == \E k \in 1..Len(Lowers) : CharAt(Lowers, k) = c

\* any(line.startswith(pattern.split()[0]) for pattern in patterns)
StartsWithAnyHead(line, patterns) ==
    \E i \in 1..Len(patterns) : StartsWith(line, Split(patterns[i])[1])

LooksLikeContinuationAnyKind(line, requirement_type) ==
    \/ IsLower(CharAt(line, 1))
    \/ StartsWith(line, "I want")
    \/ StartsWith(line, "so that")
    \/ StartsWith(line, "I need")
    \/ /\ ~StartsWithAnyHead(line, functional_patterns)
       /\ ~StartsWithAnyHead(line, non_functional_patterns)
       /\ ~StartsWith(line, "As a")
       /\ Len(line) > 10

\* _looks_like_continuation(line, requirement_type), line stripped and not empty
LooksLikeContinuation(line, requirement_type) ==
    \/ /\ requirement_type = RequirementType.USER_STORY
       /\ \/ IsLower(CharAt(line, 1))
          \/ StartsWith(line, "I want")
          \/ StartsWith(line, "so that")
          \/ StartsWith(line, "I need")
    \/ /\ ~StartsWithAnyHead(line, functional_patterns)
       /\ ~StartsWithAnyHead(line, non_functional_patterns)
       /\ ~StartsWith(line, "As a")
       /\ Len(line) > 10

\* None, for current_type
None == "None"

\* current_requirement is held as a sequence: empty for None, else the one dict

\* requirements.append(current_requirement) when there is a current one
Closed(st) == st.requirements \o st.current

\* raw lines a file can hold
RawLines == {"As a user,", "I want to reset my password,", "so that I can regain access.",
             "---", "# Login page", "The system shall log events.", "Security: encrypt data",
             "and more", "Passwords expire monthly", "", "As a user I want it", "Note"}

\* detect_requirement_type on the lines a file can hold, worked out once
DetectedTypes == [line \in {Strip(raw) : raw \in RawLines} |-> DetectRequirementType(line)]

\* self.detect_requirement_type(line) in the loop
TypeOfLine(line) ==
    IF line \in DOMAIN DetectedTypes THEN DetectedTypes[line] ELSE DetectRequirementType(line)

\* an empty line: continue
SkipEmpty(st) == st

CloseUnitKeepsOpen(st) == st

\* if current_requirement: append it; current_requirement = None; current_type = None
CloseUnit(st) ==
    IF st.current # <<>>
    THEN [requirements |-> Closed(st), current |-> <<>>, current_type |-> None]
    ELSE st

FinishBeforeStoryAlways(st) == st.current # <<>>

\* a user-story line finishes the current requirement when that is not a user story
FinishBeforeStory(st) ==
    st.current # <<>> /\ st.current_type # RequirementType.USER_STORY

\* the body of the loop of parse_structured_requirements for one line
ParseLine(st, line_num, raw) ==
    LET line == Strip(raw)
        line_type == TypeOfLine(line)
    IN  IF line = "" THEN SkipEmpty(st)
        ELSE IF line_type \in {RequirementType.SEPARATOR, RequirementType.HEADER}
        THEN CloseUnit(st)
        ELSE IF line_type = RequirementType.USER_STORY
        THEN LET finish == FinishBeforeStory(st)
                 reqs == IF finish THEN Closed(st) ELSE st.requirements
                 open == IF finish \/ st.current = <<>>
                         THEN [type |-> "user_story", lines |-> <<>>, line_numbers |-> <<>>,
                               text |-> ""]
                         ELSE st.current[1]
             IN  [requirements |-> reqs,
                  current |-> <<[type |-> open.type,
                                 lines |-> Append(open.lines, line),
                                 line_numbers |-> Append(open.line_numbers, line_num),
                                 text |-> open.text \o line \o " "]>>,
                  current_type |-> RequirementType.USER_STORY]
        ELSE IF line_type \in {RequirementType.FUNCTIONAL, RequirementType.NON_FUNCTIONAL}
        THEN [requirements |-> Closed(st),
              current |-> <<[type |-> line_type, lines |-> <<line>>,
                             line_numbers |-> <<line_num>>, text |-> line]>>,
              current_type |-> line_type]
        ELSE IF st.current # <<>> /\ LooksLikeContinuation(line, st.current_type)
        THEN [requirements |-> st.requirements,
              current |-> <<[type |-> st.current[1].type,
                             lines |-> Append(st.current[1].lines, line),
                             line_numbers |-> Append(st.current[1].line_numbers, line_num),
                             text |-> st.current[1].text \o line \o " "]>>,
              current_type |-> st.current_type]
        ELSE CloseUnit(st)

RECURSIVE ParseLines(_, _)
ParseLines(lines, n) ==
    IF n = 0 THEN [requirements |-> <<>>, current |-> <<>>, current_type |-> None]
    ELSE ParseLine(ParseLines(lines, n - 1), n, lines[n])

ParseStructuredRequirementsDropsLast(lines) == ParseLines(lines, Len(lines)).requirements

\* parse_structured_requirements(lines)
ParseStructuredRequirements(lines) == Closed(ParseLines(lines, Len(lines)))

\* the test of filter_valid_requirements on one unit
IsValidRequirement(req) ==
    /\ ~(Len(Strip(req.text)) < 10)
    /\ ~(Len(Split(req.text)) < 3)
    /\ Strip(req.text) \notin {"---", "...", "***", "___"}
    /\ ~(req.type = "user_story" /\ Len(req.lines) < 2)

\* filter_valid_requirements(structured_requirements)
RECURSIVE FilterValidRequirements(_)
FilterValidRequirements(reqs) ==
    IF reqs = <<>> THEN <<>>
    ELSE LET before == FilterValidRequirements(SubSeq(reqs, 1, Len(reqs) - 1))
         IN  IF IsValidRequirement(reqs[Len(reqs)])
             THEN Append(before, reqs[Len(reqs)])
             ELSE before

\* units handed to filter_valid_requirements by a caller other than the loader
GivenUnits ==
    {[type |-> "unknown", lines |-> <<t>>, line_numbers |-> <<1>>, text |-> t] :
        t \in {"...", "--- --- ---", "Log in"}}
    \cup {[type |-> "user_story", lines |-> <<"As a user,">>, line_numbers |-> <<1>>,
           text |-> "As a user, "]}

InitStruct ==
    /\ struct_lines \in UNION {[1..n -> RawLines] : n \in 0..MaxLines}
    /\ struct_units = <<>>
    /\ struct_given = <<>>
    /\ struct_valid = <<>>
    /\ struct_pc = "start"

IdleStruct ==
    /\ struct_lines = <<>>
    /\ struct_units = <<>>
    /\ struct_given = <<>>
    /\ struct_valid = <<>>
    /\ struct_pc = "start"

\* detector.parse_structured_requirements(raw_lines)
ParseStructured ==
    /\ struct_pc = "start"
    /\ struct_units' = ParseStructuredRequirements(struct_lines)
    /\ struct_pc' = "parsed"
    /\ UNCHANGED <<struct_lines, struct_given, struct_valid>>
    /\ UNCHANGED notStructVars

\* detector.filter_valid_requirements(structured_requirements), as the loader calls it
FilterParsed ==
    /\ struct_pc = "parsed"
    /\ struct_given' = struct_units
    /\ struct_valid' = FilterValidRequirements(struct_units)
    /\ struct_pc' = "filtered"
    /\ UNCHANGED <<struct_lines, struct_units>>
    /\ UNCHANGED notStructVars

\* detector.filter_valid_requirements(units) on units of the caller's making
FilterGiven(unit) ==
    /\ struct_pc = "parsed"
    /\ struct_given' = Append(struct_units, unit)
    /\ struct_valid' = FilterValidRequirements(Append(struct_units, unit))
    /\ struct_pc' = "filtered"
    /\ UNCHANGED <<struct_lines, struct_units>>
    /\ UNCHANGED notStructVars

NextStruct ==
    \/ ParseStructured
    \/ FilterParsed
    \/ \E unit \in GivenUnits : FilterGiven(unit)

-----------------------------------------------------------------------------
(* detectors/traceability_detector.py *)

\* RiskCategory.<MEMBER>: the member of that value, AttributeError for a name
\* the enum does not define
EnumMember(value) == IF value \in RiskCategory THEN value ELSE "AttributeError"

\* TraceabilityDetector.get_category: return RiskCategory.TRACEABILITY
TraceabilityGetCategory == EnumMember("traceability")

\* TraceabilityDetector(): BaseRiskDetector.__init__ runs _setup_detector, which
\* first evaluates self.get_category().value and then refuses a disabled block;
\* the exception the constructor raises, "None" when it returns
TraceabilityConstruct(enabled) ==
    IF TraceabilityGetCategory = "AttributeError" THEN "AttributeError"
    ELSE SetupDetector([traceability |-> enabled], TraceabilityGetCategory)

\* \w of re, on str
WordChars == Lowers \o Uppers \o Digits \o "_"

IsWordChar(s, i) == i \in 1..Len(s) /\ Contains(CharAt(s, i), WordChars)

\* \b in front of position i
WordBoundary(s, i) == IsWordChar(s, i - 1) # IsWordChar(s, i)

\* where the run of characters of the class that starts at i ends
RECURSIVE RunEnd(_, _, _)
RunEnd(s, i, class) ==
    IF i <= Len(s) /\ Contains(CharAt(s, i), class) THEN RunEnd(s, i + 1, class) ELSE i

\* \b<prefix>\d{min_digits,}\b matched at position i: a greedy digit run can
\* only end at a \b where the digits stop
PrefixedIdAt(s, i, prefix, min_digits) ==
    LET d == i + Len(prefix)
        e == RunEnd(s, d, Digits)
    IN  /\ WordBoundary(s, i)
        /\ Slice(s, i, d - 1) = prefix
        /\ e - d >= min_digits
        /\ WordBoundary(s, e)

\* \b[A-Z]{2,}-\d+\b matched at position i
UpperIdAt(s, i) ==
    LET u == RunEnd(s, i, Uppers)
        e == RunEnd(s, u + 1, Digits)
    IN  /\ WordBoundary(s, i)
        /\ u - i >= 2
        /\ CharAt(s, u) = "-"
        /\ e - (u + 1) >= 1
        /\ WordBoundary(s, e)

\* _has_requirement_id: any(re.search(rx, text) for rx in regexes)
HasRequirementId(text) ==
    \E i \in 1..Len(text) :
        \/ PrefixedIdAt(text, i, "R", 3)
        \/ PrefixedIdAt(text, i, "REQ-", 1)
        \/ PrefixedIdAt(text, i, "US-", 1)
        \/ PrefixedIdAt(text, i, "FR-", 1)
        \/ UpperIdAt(text, i)

\* get_rule_config(name).get("keywords", [])
RuleKeywords(rules, rule_name) == DictGet(rules, rule_name, <<>>)

list_markers == <<"- ", "* ", "1. ", "2. ">>

action_words == <<"given", "when", "then", "acceptance", "criteria", "ac:">>

\* _has_acceptance_criteria
HasAcceptanceCriteria(text, rules, case_sensitive) ==
    \/ ContainsKeywords(text, RuleKeywords(rules, "missing_acceptance_criteria"),
                        case_sensitive) # <<>>
    \/ /\ \E k \in 1..Len(list_markers) : Contains(list_markers[k], text)
       /\ \E k \in 1..Len(action_words) :
              Contains(action_words[k], NormalizeText(text, case_sensitive))

\* _has_test_reference
HasTestReference(text, rules, case_sensitive) ==
    Len(ContainsKeywords(text, RuleKeywords(rules, "missing_test_reference"),
                         case_sensitive)) > 0

NoSignalsDescription ==
    "No traceability signals found (ID, acceptance criteria, or test reference)"

MissingIdDescription == "Missing requirement ID (e.g., R001, REQ-123, ABC-123)"

MissingAcDescription ==
    "Missing acceptance criteria (e.g., Given/When/Then or 'Acceptance Criteria')"

MissingTestRefDescription ==
    "Missing test reference (e.g., TC-123, 'Test Case', 'validated by QA')"

\* BaseRiskDetector.get_severity_level
GetSeverityLevel(severity_str) == SeverityLevel[Lower(severity_str)]

\* self.create_risk(requirement, description, evidence, severity): the id from
\* the detector's generator, severity None standing for the block's 'severity'
TraceCreateRisk(cnt, requirement, description, severity, block_severity) ==
    LET after == Incremented(cnt, requirement.id, TraceabilityGetCategory)
        chosen == IF severity = "None" THEN block_severity ELSE severity
    IN  [counters |-> after,
         risk |-> [id |-> GeneratedId(after, requirement.id, TraceabilityGetCategory),
                   category |-> TraceabilityGetCategory,
                   severity |-> GetSeverityLevel(chosen),
                   description |-> description,
                   requirement_id |-> requirement.id,
                   line_number |-> requirement.line_number,
                   evidence |-> requirement.text]]

\* TraceabilityDetector.detect_risks
TraceDetectRisks(requirement, rules, block_severity, case_sensitive) ==
    LET has_id == HasRequirementId(requirement.text)
        has_ac == HasAcceptanceCriteria(requirement.text, rules, case_sensitive)
        has_test_ref == HasTestReference(requirement.text, rules, case_sensitive)
        downgrade_severity == "medium"
        Flag(acc, missing, description) ==
            IF ~missing THEN acc
            ELSE LET made == TraceCreateRisk(acc.counters, requirement, description,
                                             downgrade_severity, block_severity)
                 IN  [counters |-> made.counters, risks |-> Append(acc.risks, made.risk)]
    IN  IF ~(has_id \/ has_ac \/ has_test_ref)
        THEN <<TraceCreateRisk(EmptyDict, requirement, NoSignalsDescription, "None",
                               block_severity).risk>>
        ELSE Flag(Flag(Flag([counters |-> EmptyDict, risks |-> <<>>],
                            ~has_id, MissingIdDescription),
                       ~has_ac, MissingAcDescription),
                  ~has_test_ref, MissingTestRefDescription).risks

\* the 'rules' a traceability block may carry: each of the two rules absent
\* or with keywords
TraceRuleDocuments ==
    {EmptyDict,
     [missing_acceptance_criteria |-> <<"acceptance criteria", "given">>],
     [missing_test_reference |-> <<"test case", "tc-">>],
     [missing_acceptance_criteria |-> <<"acceptance criteria", "given">>,
      missing_test_reference |-> <<"test case", "tc-">>]}

\* the block's 'severity': detector_config.get('severity', 'medium')
TraceSeverities == {"medium", "high"}

TraceTexts == {"The system shall display a dashboard",
               "REQ-123 The system shall display a dashboard",
               "Acceptance Criteria: When user logs in, Then dashboard loads",
               "Validated by QA, TC-101 covers login flow",
               "R12 shall list items - given a query",
               "see r001 and Test Case 7"}

NoTraceCall == [requirement |-> [id |-> "", line_number |-> 0, text |-> ""],
                raised |-> "None", risks |-> <<>>]

InitTrace ==
    /\ trace_enabled \in BOOLEAN
    /\ trace_severity \in TraceSeverities
    /\ trace_rules \in TraceRuleDocuments
    /\ trace_case_sensitive \in BOOLEAN
    /\ trace_calls = 0
    /\ trace_last = NoTraceCall

IdleTrace ==
    /\ trace_enabled = FALSE
    /\ trace_severity = "medium"
    /\ trace_rules = EmptyDict
    /\ trace_case_sensitive = FALSE
    /\ trace_calls = 0
    /\ trace_last = NoTraceCall

\* TraceabilityDetector().detect_risks(requirement) on the next requirement of
\* the document: the detector is constructed, then asked
TraceabilityDetectRisks(text) ==
    /\ trace_calls < MaxTraceCalls
    /\ trace_calls < Len(RequirementIds)
    /\ LET requirement == [id |-> RequirementIds[trace_calls + 1],
                           line_number |-> trace_calls + 1, text |-> text]
           raised == TraceabilityConstruct(trace_enabled)
       IN  trace_last' =
               [requirement |-> requirement,
                raised |-> raised,
                risks |-> IF raised # "None" THEN <<>>
                          ELSE TraceDetectRisks(requirement, trace_rules, trace_severity,
                                                trace_case_sensitive)]
    /\ trace_calls' = trace_calls + 1
    /\ UNCHANGED <<trace_enabled, trace_severity, trace_rules, trace_case_sensitive>>
    /\ UNCHANGED notTraceVars

NextTrace == \E text \in TraceTexts : TraceabilityDetectRisks(text)

-----------------------------------------------------------------------------
(* detectors/conflict_detector.py *)

\* self.create_risk(requirement, description, evidence) of the conflict
\* detector: the id from the detector's generator, the block's severity
ConflictCreateRisk(cnt, requirement, description, evidence) ==
    LET after == Incremented(cnt, requirement.id, "conflict")
    IN  [counters |-> after,
         risk |-> [id |-> GeneratedId(after, requirement.id, "conflict"),
                   category |-> "conflict",
                   severity |-> DefaultSeverity,
                   description |-> description,
                   requirement_id |-> requirement.id,
                   line_number |-> requirement.line_number,
                   evidence |-> evidence]]

EitherPresent(text, positive_term, negative_term, case_sensitive) ==
    \/ Contains(NormalizeText(positive_term, case_sensitive),
                NormalizeText(text, case_sensitive))
    \/ Contains(NormalizeText(negative_term, case_sensitive),
                NormalizeText(text, case_sensitive))

\* has_positive and has_negative
BothPresent(text, positive_term, negative_term, case_sensitive) ==
    /\ Contains(NormalizeText(positive_term, case_sensitive),
                NormalizeText(text, case_sensitive))
    /\ Contains(NormalizeText(negative_term, case_sensitive),
                NormalizeText(text, case_sensitive))

\* f"'{positive_term}' and '{negative_term}'"
PairEvidence(positive_term, negative_term) ==
    "'" \o positive_term \o "' and '" \o negative_term \o "'"

\* _detect_contradictory_terms: the loop over the configured pairs
RECURSIVE DetectContradictoryTerms(_, _, _, _)
DetectContradictoryTerms(cnt, requirement, pairs, case_sensitive) ==
    IF pairs = <<>> THEN [counters |-> cnt, risks |-> <<>>]
    ELSE LET before == DetectContradictoryTerms(cnt, requirement,
                                                SubSeq(pairs, 1, Len(pairs) - 1),
                                                case_sensitive)
             positive_term == pairs[Len(pairs)][1]
             negative_term == pairs[Len(pairs)][2]
         IN  IF BothPresent(requirement.text, positive_term, negative_term, case_sensitive)
             THEN LET made == ConflictCreateRisk(
                                  before.counters, requirement,
                                  "Contradictory terms found: "
                                      \o PairEvidence(positive_term, negative_term),
                                  PairEvidence(positive_term, negative_term))
                  IN  [counters |-> made.counters, risks |-> Append(before.risks, made.risk)]
             ELSE before

\* ', '.join(found_priorities)
RECURSIVE JoinComma(_)
JoinComma(words) ==
    IF words = <<>> THEN ""
    ELSE IF Len(words) = 1 THEN words[1]
    ELSE JoinComma(SubSeq(words, 1, Len(words) - 1)) \o ", " \o words[Len(words)]

\* _detect_conflicting_priorities
DetectConflictingPriorities(cnt, requirement, keywords, case_sensitive) ==
    LET found_priorities == ContainsKeywords(requirement.text, keywords, case_sensitive)
    IN  IF Len(found_priorities) > 1
        THEN LET made == ConflictCreateRisk(
                             cnt, requirement,
                             "Multiple urgent priority terms found: "
                                 \o JoinComma(found_priorities),
                             JoinComma(found_priorities))
             IN  [counters |-> made.counters, risks |-> <<made.risk>>]
        ELSE [counters |-> cnt, risks |-> <<>>]

\* the 'pairs' a contradictory_terms rule may carry ([] when the rule is absent)
ConflictPairLists ==
    {<<>>,
     << <<"always", "never">>, <<"required", "optional">> >>,
     << <<"Allow", "deny">>, <<"always", "never">> >>}

\* the 'keywords' a conflicting_priorities rule may carry
ConflictKeywordLists == {<<>>, <<"urgent", "critical", "asap">>}

ConflictTexts == {"The system shall always and never allow access",
                  "This feature is required and optional",
                  "The system must allow users to login",
                  "Never deny an urgent and critical request",
                  "Always required, never optional"}

NoConflictCall == [requirement |-> [id |-> "", line_number |-> 0, text |-> ""],
                   contradiction_risks |-> <<>>, priority_risks |-> <<>>, risks |-> <<>>]

InitConflict ==
    /\ conf_pairs \in ConflictPairLists
    /\ conf_keywords \in ConflictKeywordLists
    /\ conf_case_sensitive \in BOOLEAN
    /\ conf_counters = EmptyDict
    /\ conf_calls = 0
    /\ conf_last = NoConflictCall

IdleConflict ==
    /\ conf_pairs = <<>>
    /\ conf_keywords = <<>>
    /\ conf_case_sensitive = FALSE
    /\ conf_counters = EmptyDict
    /\ conf_calls = 0
    /\ conf_last = NoConflictCall

\* ConflictDetector.detect_risks on the next requirement of the document
ConflictDetectRisks(text) ==
    /\ conf_calls < MaxConflictCalls
    /\ conf_calls < Len(RequirementIds)
    /\ LET requirement == [id |-> RequirementIds[conf_calls + 1],
                           line_number |-> conf_calls + 1, text |-> text]
           contradiction == DetectContradictoryTerms(conf_counters, requirement, conf_pairs,
                                                     conf_case_sensitive)
           priority == DetectConflictingPriorities(contradiction.counters, requirement,
                                                   conf_keywords, conf_case_sensitive)
       IN  /\ conf_counters' = priority.counters
           /\ conf_last' = [requirement |-> requirement,
                            contradiction_risks |-> contradiction.risks,
                            priority_risks |-> priority.risks,
                            risks |-> contradiction.risks \o priority.risks]
    /\ conf_calls' = conf_calls + 1
    /\ UNCHANGED <<conf_pairs, conf_keywords, conf_case_sensitive>>
    /\ UNCHANGED notConfVars

NextConflict == \E text \in ConflictTexts : ConflictDetectRisks(text)

-----------------------------------------------------------------------------
(* config/configuration_provider.py *)

\* rule documents a rules file may hold
RuleDocuments ==
    {EmptyDict,
     [detectors |-> [test |-> [enabled |-> TRUE]]],
     [detectors |-> [test |-> [enabled |-> FALSE]]]}

\* what the rules file may be: absent, not JSON, the JSON value null, or a
\* rule document
SourceContents ==
    {[kind |-> "missing", value |-> <<>>], [kind |-> "invalid", value |-> <<>>],
     [kind |-> "json", value |-> <<>>]}
    \cup {[kind |-> "json", value |-> <<d>>] : d \in RuleDocuments}

\* _load_from_file: the exception raised ("None" when it returns) and the
\* value of json.load (<<>> for None)
LoadFromFile(source) ==
    IF source.kind \in {"missing", "invalid"}
    THEN [raised |-> "ConfigurationError", config |-> <<>>]
    ELSE [raised |-> "None", config |-> source.value]

GetConfigurationResultAlwaysReads(config, source) ==
    LET loaded == LoadFromFile(source)
    IN  [raised |-> loaded.raised, read |-> TRUE,
         config |-> IF loaded.raised = "None" THEN loaded.config ELSE config,
         returned |-> loaded.config]

\* get_configuration: if self._config is None: self._config = self._load_from_file();
\* return self._config
GetConfigurationResult(config, source) ==
    IF config = <<>>
    THEN LET loaded == LoadFromFile(source)
         IN  [raised |-> loaded.raised, read |-> TRUE,
              config |-> IF loaded.raised = "None" THEN loaded.config ELSE config,
              returned |-> loaded.config]
    ELSE [raised |-> "None", read |-> FALSE, config |-> config, returned |-> config]

\* reload: self._config = None
Reloaded(config) == <<>>

NoProviderCall == [op |-> "none", raised |-> "None", read |-> FALSE, returned |-> <<>>,
                   loaded_before |-> <<>>, source |-> [kind |-> "missing", value |-> <<>>]]

InitProvider ==
    /\ prov_source \in SourceContents
    /\ prov_config = <<>>
    /\ prov_reads = 0
    /\ prov_calls = 0
    /\ prov_last = NoProviderCall
    /\ prov_loaded = <<>>

IdleProvider ==
    /\ prov_source = [kind |-> "missing", value |-> <<>>]
    /\ prov_config = <<>>
    /\ prov_reads = 0
    /\ prov_calls = 0
    /\ prov_last = NoProviderCall
    /\ prov_loaded = <<>>

\* provider.get_configuration()
GetConfiguration ==
    /\ prov_calls < MaxProviderCalls
    /\ LET got == GetConfigurationResult(prov_config, prov_source)
       IN  /\ prov_config' = got.config
           /\ prov_reads' = prov_reads + (IF got.read THEN 1 ELSE 0)
           /\ prov_last' = [op |-> "get_configuration", raised |-> got.raised,
                            read |-> got.read, returned |-> got.returned,
                            loaded_before |-> prov_loaded, source |-> prov_source]
           /\ prov_loaded' = IF got.raised = "None" THEN got.returned ELSE prov_loaded
    /\ prov_calls' = prov_calls + 1
    /\ UNCHANGED prov_source
    /\ UNCHANGED notProvVars

\* provider.reload()
Reload ==
    /\ prov_calls < MaxProviderCalls
    /\ prov_config' = Reloaded(prov_config)
    /\ prov_last' = [op |-> "reload", raised |-> "None", read |-> FALSE, returned |-> <<>>,
                     loaded_before |-> prov_loaded, source |-> prov_source]
    /\ prov_loaded' = <<>>
    /\ prov_calls' = prov_calls + 1
    /\ UNCHANGED <<prov_source, prov_reads>>
    /\ UNCHANGED notProvVars

\* the rules file is rewritten between two calls
SourceRewritten(content) ==
    /\ prov_calls < MaxProviderCalls
    /\ content # prov_source
    /\ prov_source' = content
    /\ UNCHANGED <<prov_config, prov_reads, prov_calls, prov_last, prov_loaded>>
    /\ UNCHANGED notProvVars

NextProvider ==
    \/ GetConfiguration
    \/ Reload
    \/ \E content \in SourceContents : SourceRewritten(content)

-----------------------------------------------------------------------------
(* requirement_parser.py, models/requirement.py *)

GenerateRequirementIdNoIncrement(counter) ==
    [counter |-> counter, id |-> "R" \o Format03d(counter + 1)]

\* _generate_id: self._id_counter += 1; return f"R{self._id_counter:03d}"
GenerateRequirementId(counter) ==
    [counter |-> counter + 1, id |-> "R" \o Format03d(counter + 1)]

\* Requirement.__post_init__: the exception raised, "None" when the object is made
RequirementPostInit(id, line_number, text) ==
    IF id = "" \/ line_number <= 0 \/ text = "" \/ Strip(text) = ""
    THEN "ValueError" ELSE "None"

\* the loop of parse_requirements and parse_structured_requirements over the
\* first n items, an item being the line number and text of the Requirement
\* to make; an exception ends the loop
RECURSIVE ParseItems(_, _, _)
ParseItems(counter, items, n) ==
    IF n = 0 THEN [counter |-> counter, requirements |-> <<>>, raised |-> "None"]
    ELSE LET before == ParseItems(counter, items, n - 1)
             made == GenerateRequirementId(before.counter)
             raised == RequirementPostInit(made.id, items[n].line_number, items[n].text)
         IN  IF before.raised # "None" THEN before
             ELSE IF raised # "None"
             THEN [counter |-> made.counter, requirements |-> before.requirements,
                   raised |-> raised]
             ELSE [counter |-> made.counter,
                   requirements |-> Append(before.requirements,
                                           [id |-> made.id,
                                            line_number |-> items[n].line_number,
                                            text |-> items[n].text]),
                   raised |-> "None"]

\* enumerate(lines, start=1)
LineItems(lines) == [i \in 1..Len(lines) |-> [line_number |-> i, text |-> lines[i]]]

\* line_number = structured_req['line_numbers'][0]; text = structured_req['text'].strip()
UnitItems(units) ==
    [i \in 1..Len(units) |-> [line_number |-> units[i].line_numbers[1],
                              text |-> Strip(units[i].text)]]

\* lines a caller may hand to parse_requirements
ParserLines == {"Requirement 1", "   "}

\* units a caller may hand to parse_structured_requirements
ParserUnits ==
    {[type |-> "functional", lines |-> <<"The system shall log events.">>,
      line_numbers |-> <<3>>, text |-> "The system shall log events."],
     [type |-> "user_story", lines |-> <<"As a user,", "I want it,">>,
      line_numbers |-> <<1, 2>>, text |-> "As a user, I want it, "],
     [type |-> "unknown", lines |-> <<" ">>, line_numbers |-> <<5>>, text |-> " "]}

NoParserCall == [op |-> "none", raised |-> "None", returned |-> <<>>, handed |-> 0]

InitParser ==
    /\ par_counter = 0
    /\ par_calls = 0
    /\ par_last = NoParserCall
    /\ par_handed = 0
    /\ par_produced = <<>>

IdleParser == InitParser

\* what one parse call does to the parser and to the record of what it returned
ParseCall(op, items) ==
    /\ par_calls < MaxParseCalls
    /\ LET done == ParseItems(par_counter, items, Len(items))
           result == IF done.raised = "None" THEN done.requirements ELSE <<>>
       IN  /\ par_counter' = done.counter
           /\ par_last' = [op |-> op, raised |-> done.raised, returned |-> result,
                           handed |-> par_handed]
           /\ par_handed' = par_handed + (done.counter - par_counter)
           /\ par_produced' =
                  par_produced \o [k \in 1..Len(result) |->
                                      [id |-> result[k].id, position |-> par_handed + k]]
    /\ par_calls' = par_calls + 1
    /\ UNCHANGED notParVars

\* parser.parse_requirements(lines)
ParseRequirements(lines) == ParseCall("parse_requirements", LineItems(lines))

\* parser.parse_structured_requirements(structured_requirements)
ParseStructuredUnits(units) == ParseCall("parse_structured_requirements", UnitItems(units))

\* parser.reset_counter()
ResetCounter ==
    /\ par_counter > 0
    /\ par_counter' = 0
    /\ par_last' = [op |-> "reset_counter", raised |-> "None", returned |-> <<>>,
                    handed |-> par_handed]
    /\ par_handed' = 0
    /\ par_produced' = <<>>
    /\ UNCHANGED par_calls
    /\ UNCHANGED notParVars

NextParser ==
    \/ \E lines \in UNION {[1..n -> ParserLines] : n \in 0..MaxParseLines} :
           ParseRequirements(lines)
    \/ \E units \in UNION {[1..n -> ParserUnits] : n \in 0..MaxParseLines} :
           ParseStructuredUnits(units)
    \/ ResetCounter

-----------------------------------------------------------------------------
(* web/api/recovery.py: CircuitBreaker *)

CircuitState == [CLOSED |-> "closed", OPEN |-> "open", HALF_OPEN |-> "half_open"]

ShouldAttemptResetAlways(last_failure_time, now, config) == TRUE

\* _should_attempt_reset
ShouldAttemptReset(last_failure_time, now, config) ==
    IF last_failure_time = -1 THEN TRUE
    ELSE now - last_failure_time >= config.recovery_timeout

\* _on_success
OnSuccess(b, config) ==
    IF b.state = CircuitState.HALF_OPEN
    THEN IF b.success_count + 1 >= config.success_threshold
         THEN [b EXCEPT !.state = CircuitState.CLOSED, !.failure_count = 0,
                        !.success_count = 0]
         ELSE [b EXCEPT !.success_count = b.success_count + 1]
    ELSE [b EXCEPT !.failure_count = 0]

\* _on_failure
OnFailure(b, config, now) ==
    LET counted == [b EXCEPT !.failure_count = b.failure_count + 1,
                             !.last_failure_time = now]
    IN  IF b.state = CircuitState.HALF_OPEN
        THEN [counted EXCEPT !.state = CircuitState.OPEN]
        ELSE IF counted.failure_count >= config.failure_threshold
        THEN [counted EXCEPT !.state = CircuitState.OPEN]
        ELSE counted

\* what the wrapped function does when invoked: it returns, raises one of
\* config.expected_exception, or raises something else
FuncOutcomes == {"returns", "raises_expected", "raises_other"}

\* CircuitBreaker.call: the breaker afterwards, whether func was invoked, and
\* what the call raised ("None" when it returned the result)
CallResult(b, config, now, outcome) ==
    LET admitted == IF b.state = CircuitState.OPEN
                       /\ ShouldAttemptReset(b.last_failure_time, now, config)
                    THEN [b EXCEPT !.state = CircuitState.HALF_OPEN]
                    ELSE b
    IN  IF admitted.state = CircuitState.OPEN
        THEN [breaker |-> b, invoked |-> FALSE, raised |-> "StressSpecException",
              error_code |-> "CIRCUIT_BREAKER_OPEN", entered_half_open |-> FALSE]
        ELSE [breaker |-> CASE outcome = "returns" -> OnSuccess(admitted, config)
                            [] outcome = "raises_expected" -> OnFailure(admitted, config, now)
                            [] OTHER -> admitted,
              invoked |-> TRUE,
              raised |-> IF outcome = "returns" THEN "None" ELSE outcome,
              error_code |-> "",
              entered_half_open |-> admitted.state # b.state]

\* CircuitBreakerConfig(failure_threshold, recovery_timeout, success_threshold)
BreakerConfigs ==
    [failure_threshold : 1..2, recovery_timeout : 1..2, success_threshold : 1..2]

NoBreakerCall == [outcome |-> "none", invoked |-> FALSE, raised |-> "None",
                  error_code |-> "", state_before |-> CircuitState.CLOSED,
                  now |-> 0, last_failure_before |-> -1, closed_failures |-> 0,
                  episode_successes |-> 0]

InitBreaker ==
    /\ cb_config \in BreakerConfigs
    /\ cb_state = CircuitState.CLOSED
    /\ cb_failure_count = 0
    /\ cb_success_count = 0
    /\ cb_last_failure_time = -1
    /\ cb_now = 0
    /\ cb_calls = 0
    /\ cb_last = NoBreakerCall
    /\ cb_closed_failures = 0
    /\ cb_episode_successes = 0

IdleBreaker ==
    /\ cb_config = [failure_threshold |-> 1, recovery_timeout |-> 1, success_threshold |-> 1]
    /\ cb_state = CircuitState.CLOSED
    /\ cb_failure_count = 0
    /\ cb_success_count = 0
    /\ cb_last_failure_time = -1
    /\ cb_now = 0
    /\ cb_calls = 0
    /\ cb_last = NoBreakerCall
    /\ cb_closed_failures = 0
    /\ cb_episode_successes = 0

\* await breaker.call(func), func behaving as given
BreakerCall(outcome) ==
    /\ cb_calls < MaxBreakerCalls
    /\ LET b == [state |-> cb_state, failure_count |-> cb_failure_count,
                 success_count |-> cb_success_count,
                 last_failure_time |-> cb_last_failure_time]
           done == CallResult(b, cb_config, cb_now, outcome)
           streak == IF done.invoked /\ cb_state = CircuitState.CLOSED
                     THEN CASE outcome = "returns" -> 0
                            [] outcome = "raises_expected" -> cb_closed_failures + 1
                            [] OTHER -> cb_closed_failures
                     ELSE IF done.breaker.state = CircuitState.CLOSED THEN 0
                     ELSE cb_closed_failures
           episode == (IF done.entered_half_open THEN 0 ELSE cb_episode_successes)
                      + (IF done.invoked /\ outcome = "returns"
                            /\ (done.entered_half_open \/ cb_state = CircuitState.HALF_OPEN)
                         THEN 1 ELSE 0)
       IN  /\ cb_state' = done.breaker.state
           /\ cb_failure_count' = done.breaker.failure_count
           /\ cb_success_count' = done.breaker.success_count
           /\ cb_last_failure_time' = done.breaker.last_failure_time
           /\ cb_closed_failures' = streak
           /\ cb_episode_successes' = episode
           /\ cb_last' = [outcome |-> outcome, invoked |-> done.invoked,
                          raised |-> done.raised, error_code |-> done.error_code,
                          state_before |-> cb_state, now |-> cb_now,
                          last_failure_before |-> cb_last_failure_time,
                          closed_failures |-> streak, episode_successes |-> episode]
    /\ cb_calls' = cb_calls + 1
    /\ UNCHANGED <<cb_config, cb_now>>
    /\ UNCHANGED notCbVars

\* time passes between two calls
Tick ==
    /\ cb_now < MaxTime
    /\ cb_calls < MaxBreakerCalls
    /\ cb_now' = cb_now + 1
    /\ UNCHANGED <<cb_config, cb_state, cb_failure_count, cb_success_count,
                   cb_last_failure_time, cb_calls, cb_last, cb_closed_failures,
                   cb_episode_successes>>
    /\ UNCHANGED notCbVars

NextBreaker ==
    \/ \E outcome \in FuncOutcomes : BreakerCall(outcome)
    \/ Tick

-----------------------------------------------------------------------------
(* web/api/recovery.py: RetryManager *)

\* what one invocation of the wrapped function does: it returns, raises one
\* of config.retry_on_exceptions, or raises something else
AttemptOutcomes == {"returns", "raises_retryable", "raises_other"}

\* the loop of RetryManager.retry from attempt index `attempt` on, the k-th
\* invocation of func behaving as behaviour[k]: how often func was invoked,
\* the attempt whose result is returned (0 when none) and the attempt whose
\* exception is raised (0 when none; "TypeError" is raised for
\* `raise last_exception` with last_exception None)
RECURSIVE RetryLoop(_, _, _)
RetryLoop(attempt, max_attempts, behaviour) ==
    IF attempt >= max_attempts
    THEN [invoked |-> attempt, returned |-> 0, raised |-> "TypeError", raised_by |-> 0]
    ELSE LET outcome == behaviour[attempt + 1]
         IN  IF outcome = "returns"
             THEN [invoked |-> attempt + 1, returned |-> attempt + 1, raised |-> "None",
                   raised_by |-> 0]
             ELSE IF outcome = "raises_other"
             THEN [invoked |-> attempt + 1, returned |-> 0, raised |-> outcome,
                   raised_by |-> attempt + 1]
             ELSE IF attempt = max_attempts - 1
             THEN [invoked |-> attempt + 1, returned |-> 0, raised |-> outcome,
                   raised_by |-> attempt + 1]
             ELSE RetryLoop(attempt + 1, max_attempts, behaviour)

RetryResultOneMore(max_attempts, behaviour) == RetryLoop(0, max_attempts + 1, behaviour)

\* RetryManager.retry(func)
RetryResult(max_attempts, behaviour) == RetryLoop(0, max_attempts, behaviour)

NoRetryCall == [behaviour |-> <<>>, invoked |-> 0, returned |-> 0, raised |-> "None",
                raised_by |-> 0]

InitRetry ==
    /\ retry_max_attempts \in 0..MaxAttempts
    /\ retry_calls = 0
    /\ retry_last = NoRetryCall

IdleRetry ==
    /\ retry_max_attempts = 0
    /\ retry_calls = 0
    /\ retry_last = NoRetryCall

\* await retry_manager.retry(func), the invocations of func behaving as given
Retry(behaviour) ==
    /\ retry_calls < MaxRetryCalls
    /\ LET done == RetryResult(retry_max_attempts, behaviour)
       IN  retry_last' = [behaviour |-> behaviour, invoked |-> done.invoked,
                          returned |-> done.returned, raised |-> done.raised,
                          raised_by |-> done.raised_by]
    /\ retry_calls' = retry_calls + 1
    /\ UNCHANGED retry_max_attempts
    /\ UNCHANGED notRetryVars

NextRetry == \E behaviour \in [1..(MaxAttempts + 1) -> AttemptOutcomes] : Retry(behaviour)

-----------------------------------------------------------------------------
(* factories/detector_factory.py, detectors/base.py, analyzer.py: analysing
   again with the detectors the factory has cached *)

\* RiskDetectorFactory.create_detector: the cached instance when there is one,
\* otherwise a new detector, whose __init__ makes its own RiskIdGenerator with
\* no counters, stored in the cache
CreateCachedDetector(cache, detector_type) ==
    IF detector_type \in DOMAIN cache THEN cache
    ELSE DictSet(cache, detector_type, EmptyDict)

\* create_detector for each of the types in turn
RECURSIVE CreateCachedDetectors(_, _)
CreateCachedDetectors(cache, types) ==
    IF types = <<>> THEN cache
    ELSE CreateCachedDetectors(CreateCachedDetector(cache, types[1]), Tail(types))

\* the first k passes of the inner loop body of analyze_requirements, the
\* requirements in the outer loop and the detectors in the inner one; cache
\* holds the counters of each detector's generator, found[r, d] is the number
\* of risks detector d finds on requirement r
RECURSIVE AnalyzeLoop(_, _, _, _, _)
AnalyzeLoop(reqs, types, found, cache, k) ==
    IF k = 0 THEN [cache |-> cache, risks_by_requirement |-> InitialDict(reqs)]
    ELSE LET before == AnalyzeLoop(reqs, types, found, cache, k - 1)
             r == ((k - 1) \div Len(types)) + 1
             d == ((k - 1) % Len(types)) + 1
             requirement == reqs[r]
             made == CreateRisks(before.cache[types[d]], requirement, types[d],
                                 found[r, d])
         IN  [cache |-> [before.cache EXCEPT ![types[d]] = made.counters],
              risks_by_requirement |->
                  IF made.risks # <<>>
                  THEN ExtendEntry(before.risks_by_requirement, requirement.id,
                                   made.risks)
                  ELSE before.risks_by_requirement]

\* analyze_requirements(requirements, detectors) run to its return
AnalyzeRequirements(reqs, types, found, cache) ==
    AnalyzeLoop(reqs, types, found, cache, Len(reqs) * Len(types))

InitRerun ==
    /\ \E n \in 0..MaxReqs : n <= Len(RequirementIds)
                             /\ rerun_requirements = RequirementList(n)
    /\ rerun_types \in DetectorLists
    /\ rerun_found \in [(1..Len(rerun_requirements)) \X (1..Len(rerun_types))
                            -> 0..MaxFound]
    /\ rerun_cache = EmptyDict
    /\ rerun_results = <<>>

IdleRerun ==
    /\ rerun_requirements = <<>>
    /\ rerun_types = <<>>
    /\ rerun_found = [p \in {} |-> 0]
    /\ rerun_cache = EmptyDict
    /\ rerun_results = <<>>

\* one analysis: the detectors are asked of the factory, which hands out its
\* cached instances, and analyze_requirements runs them over the list
AnalyzeAgain ==
    /\ Len(rerun_results) < MaxRuns
    /\ LET created == CreateCachedDetectors(rerun_cache, rerun_types)
           run == AnalyzeRequirements(rerun_requirements, rerun_types, rerun_found,
                                      created)
       IN  /\ rerun_cache' = run.cache
           /\ rerun_results' = Append(rerun_results, run.risks_by_requirement)
    /\ UNCHANGED <<rerun_requirements, rerun_types, rerun_found>>
    /\ UNCHANGED notRerunVars

NextRerun == AnalyzeAgain

-----------------------------------------------------------------------------
(* Specifications, one per component *)

InitSpecGen ==
    /\ InitGen
    /\ IdleAnalyze
    /\ IdleSecurity
    /\ IdleFactory
    /\ IdleScore
    /\ IdleTop
    /\ IdleStruct
    /\ IdleTrace
    /\ IdleConflict
    /\ IdleProvider
    /\ IdleParser
    /\ IdleBreaker
    /\ IdleRetry
    /\ IdleRerun

SpecGen == InitSpecGen /\ [][NextGen]_vars

InitSpecAnalyze ==
    /\ InitAnalyze
    /\ IdleGen
    /\ IdleSecurity
    /\ IdleFactory
    /\ IdleScore
    /\ IdleTop
    /\ IdleStruct
    /\ IdleTrace
    /\ IdleConflict
    /\ IdleProvider
    /\ IdleParser
    /\ IdleBreaker
    /\ IdleRetry
    /\ IdleRerun

SpecAnalyze == InitSpecAnalyze /\ [][NextAnalyze]_vars

InitSpecSecurity ==
    /\ InitSecurity
    /\ IdleGen
    /\ IdleAnalyze
    /\ IdleFactory
    /\ IdleScore
    /\ IdleTop
    /\ IdleStruct
    /\ IdleTrace
    /\ IdleConflict
    /\ IdleProvider
    /\ IdleParser
    /\ IdleBreaker
    /\ IdleRetry
    /\ IdleRerun

SpecSecurity == InitSpecSecurity /\ [][NextSecurity]_vars

InitSpecFactory ==
    /\ InitFactory
    /\ IdleGen
    /\ IdleAnalyze
    /\ IdleSecurity
    /\ IdleScore
    /\ IdleTop
    /\ IdleStruct
    /\ IdleTrace
    /\ IdleConflict
    /\ IdleProvider
    /\ IdleParser
    /\ IdleBreaker
    /\ IdleRetry
    /\ IdleRerun

SpecFactory == InitSpecFactory /\ [][NextFactory]_vars

InitSpecScore ==
    /\ InitScore
    /\ IdleGen
    /\ IdleAnalyze
    /\ IdleSecurity
    /\ IdleFactory
    /\ IdleTop
    /\ IdleStruct
    /\ IdleTrace
    /\ IdleConflict
    /\ IdleProvider
    /\ IdleParser
    /\ IdleBreaker
    /\ IdleRetry
    /\ IdleRerun

SpecScore == InitSpecScore /\ [][NextScore]_vars

InitSpecTop ==
    /\ InitTop
    /\ IdleGen
    /\ IdleAnalyze
    /\ IdleSecurity
    /\ IdleFactory
    /\ IdleScore
    /\ IdleStruct
    /\ IdleTrace
    /\ IdleConflict
    /\ IdleProvider
    /\ IdleParser
    /\ IdleBreaker
    /\ IdleRetry
    /\ IdleRerun

SpecTop == InitSpecTop /\ [][NextTop]_vars

InitSpecStruct ==
    /\ InitStruct
    /\ IdleGen
    /\ IdleAnalyze
    /\ IdleSecurity
    /\ IdleFactory
    /\ IdleScore
    /\ IdleTop
    /\ IdleTrace
    /\ IdleConflict
    /\ IdleProvider
    /\ IdleParser
    /\ IdleBreaker
    /\ IdleRetry
    /\ IdleRerun

SpecStruct == InitSpecStruct /\ [][NextStruct]_vars

InitSpecTrace ==
    /\ InitTrace
    /\ IdleGen
    /\ IdleAnalyze
    /\ IdleSecurity
    /\ IdleFactory
    /\ IdleScore
    /\ IdleTop
    /\ IdleStruct
    /\ IdleConflict
    /\ IdleProvider
    /\ IdleParser
    /\ IdleBreaker
    /\ IdleRetry
    /\ IdleRerun

SpecTrace == InitSpecTrace /\ [][NextTrace]_vars

InitSpecConf ==
    /\ InitConflict
    /\ IdleGen
    /\ IdleAnalyze
    /\ IdleSecurity
    /\ IdleFactory
    /\ IdleScore
    /\ IdleTop
    /\ IdleStruct
    /\ IdleTrace
    /\ IdleProvider
    /\ IdleParser
    /\ IdleBreaker
    /\ IdleRetry
    /\ IdleRerun

SpecConf == InitSpecConf /\ [][NextConflict]_vars

InitSpecProv ==
    /\ InitProvider
    /\ IdleGen
    /\ IdleAnalyze
    /\ IdleSecurity
    /\ IdleFactory
    /\ IdleScore
    /\ IdleTop
    /\ IdleStruct
    /\ IdleTrace
    /\ IdleConflict
    /\ IdleParser
    /\ IdleBreaker
    /\ IdleRetry
    /\ IdleRerun

SpecProv == InitSpecProv /\ [][NextProvider]_vars

InitSpecPar ==
    /\ InitParser
    /\ IdleGen
    /\ IdleAnalyze
    /\ IdleSecurity
    /\ IdleFactory
    /\ IdleScore
    /\ IdleTop
    /\ IdleStruct
    /\ IdleTrace
    /\ IdleConflict
    /\ IdleProvider
    /\ IdleBreaker
    /\ IdleRetry
    /\ IdleRerun

SpecPar == InitSpecPar /\ [][NextParser]_vars

InitSpecCb ==
    /\ InitBreaker
    /\ IdleGen
    /\ IdleAnalyze
    /\ IdleSecurity
    /\ IdleFactory
    /\ IdleScore
    /\ IdleTop
    /\ IdleStruct
    /\ IdleTrace
    /\ IdleConflict
    /\ IdleProvider
    /\ IdleParser
    /\ IdleRetry
    /\ IdleRerun

SpecCb == InitSpecCb /\ [][NextBreaker]_vars

InitSpecRetry ==
    /\ InitRetry
    /\ IdleGen
    /\ IdleAnalyze
    /\ IdleSecurity
    /\ IdleFactory
    /\ IdleScore
    /\ IdleTop
    /\ IdleStruct
    /\ IdleTrace
    /\ IdleConflict
    /\ IdleProvider
    /\ IdleParser
    /\ IdleBreaker
    /\ IdleRerun

SpecRetry == InitSpecRetry /\ [][NextRetry]_vars

InitSpecRerun ==
    /\ InitRerun
    /\ IdleGen
    /\ IdleAnalyze
    /\ IdleSecurity
    /\ IdleFactory
    /\ IdleScore
    /\ IdleTop
    /\ IdleStruct
    /\ IdleTrace
    /\ IdleConflict
    /\ IdleProvider
    /\ IdleParser
    /\ IdleBreaker
    /\ IdleRetry

SpecRerun == InitSpecRerun /\ [][NextRerun]_vars

-----------------------------------------------------------------------------
(* Claims about the analyzer *)

InputIds == {requirements[i].id : i \in 1..Len(requirements)}

EltsOf(q) == {q[i] : i \in 1..Len(q)}

\* the detect_risks calls recorded so far
Calls == 1..Len(returned)

KeyOfCall(k) == requirements[returned[k].req].id

Stored(id) == IF id \in DOMAIN risks_by_requirement
              THEN EltsOf(risks_by_requirement[id]) ELSE {}

\* C1: when detect_risks raises for a (requirement, detector) pair, analyze
\* still runs every pair and returns; the failing pair contributes no risk, and
\* every risk returned by a call that did not raise is in the result under its
\* requirement.
C1_FailureIsolated ==
    analyze_pc = "done" =>
        /\ \A i \in 1..Len(requirements), j \in 1..Len(detectors) :
               \E k \in Calls : returned[k].req = i /\ returned[k].det = j
        /\ \A k \in Calls :
               IF returned[k].raised
               THEN EltsOf(returned[k].created) \cap Stored(KeyOfCall(k)) = {}
               ELSE EltsOf(returned[k].created) \subseteq Stored(KeyOfCall(k))

C1_Witness ==
    /\ analyze_pc = "done"
    /\ \E k, m, n \in Calls :
           /\ returned[k].raised /\ returned[k].created # <<>>
           /\ returned[m].req = returned[k].req /\ returned[m].det # returned[k].det
           /\ ~returned[m].raised /\ returned[m].created # <<>>
           /\ returned[n].det = returned[k].det /\ returned[n].req # returned[k].req
           /\ ~returned[n].raised /\ returned[n].created # <<>>

\* C2: the key set of the returned dict is the set of input requirement ids,
\* and a requirement for which every call returned nothing or raised maps to
\* the empty list.
C2_EveryRequirementHasEntry ==
    analyze_pc = "done" =>
        /\ DOMAIN risks_by_requirement = InputIds
        /\ \A i \in 1..Len(requirements) :
               (\A k \in Calls : returned[k].req = i =>
                                     returned[k].raised \/ returned[k].created = <<>>)
               => /\ requirements[i].id \in DOMAIN risks_by_requirement
                  /\ risks_by_requirement[requirements[i].id] = <<>>

C2_Witness ==
    /\ analyze_pc = "done"
    /\ Len(requirements) = 2
    /\ Len(detectors) = 2
    /\ risks_by_requirement[requirements[1].id] # <<>>
    /\ risks_by_requirement[requirements[2].id] = <<>>
    /\ \E k \in Calls : returned[k].req = 2 /\ returned[k].raised

\* the call that created the risk at position p of a requirement's list, and
\* the risk's position in what that call returned
OriginOf(r) == CHOOSE k \in Calls : r \in EltsOf(returned[k].created)

PlaceOf(r) == CHOOSE p \in 1..Len(returned[OriginOf(r)].created) :
                  returned[OriginOf(r)].created[p] = r

\* C3: in each requirement's list the risks of an earlier detector of the
\* detector list precede those of a later one, and the risks of one detector
\* keep the order in which the detector returned them.
C3_DetectorOrder ==
    \A id \in DOMAIN risks_by_requirement :
        LET list == risks_by_requirement[id]
        IN  \A p, q \in 1..Len(list) :
                p < q =>
                    /\ \E k \in Calls : list[p] \in EltsOf(returned[k].created)
                    /\ \E k \in Calls : list[q] \in EltsOf(returned[k].created)
                    /\ \/ returned[OriginOf(list[p])].det < returned[OriginOf(list[q])].det
                       \/ /\ OriginOf(list[p]) = OriginOf(list[q])
                          /\ PlaceOf(list[p]) < PlaceOf(list[q])

C3_Witness ==
    /\ analyze_pc = "done"
    /\ \E id \in DOMAIN risks_by_requirement :
           LET list == risks_by_requirement[id]
           IN  /\ Len(list) = 3
               /\ list[1].category = list[2].category
               /\ list[3].category # list[2].category

\* C6: within one analysis run no two Risk objects of the result have the
\* same id, whichever detectors produced them.
C6_RiskIdsUnique ==
    \A a, b \in DOMAIN risks_by_requirement :
        \A p \in 1..Len(risks_by_requirement[a]), q \in 1..Len(risks_by_requirement[b]) :
            risks_by_requirement[a][p].id = risks_by_requirement[b][q].id
                => a = b /\ p = q

C6_Witness ==
    /\ analyze_pc = "done"
    /\ \E id \in DOMAIN risks_by_requirement :
           \E p, q \in 1..Len(risks_by_requirement[id]) :
               /\ risks_by_requirement[id][p].id = "R001-AMB-001"
               /\ risks_by_requirement[id][q].id = "R001-AVA-001"

\* C9: every Risk stored under key k has requirement_id k, k is the id of an
\* input requirement, and the Risk's category is that of the detector whose
\* call produced it.
C9_RiskMatchesKeyAndDetector ==
    \A id \in DOMAIN risks_by_requirement :
        /\ id \in InputIds
        /\ \A p \in 1..Len(risks_by_requirement[id]) :
               LET r == risks_by_requirement[id][p]
               IN  /\ r.requirement_id = id
                   /\ \E k \in Calls : /\ r \in EltsOf(returned[k].created)
                                       /\ r.category = detectors[returned[k].det]
                                       /\ KeyOfCall(k) = id

C9_Witness ==
    /\ analyze_pc = "done"
    /\ Len(requirements) = 2
    /\ \E p \in 1..Len(risks_by_requirement["R001"]), q \in 1..Len(risks_by_requirement["R002"]) :
           risks_by_requirement["R001"][p].category # risks_by_requirement["R002"][q].category

-----------------------------------------------------------------------------
(* Claims about the security detector *)

SecurityChecks ==
    [missing_authentication |-> sec_last.auth_risks,
     missing_authorization |-> sec_last.authz_risks,
     missing_data_protection |-> sec_last.data_risks,
     insecure_communication |-> sec_last.comm_risks]

\* a phrase is present in the text: it occurs in it, both normalised
Present(phrase) ==
    Contains(NormalizeText(phrase, sec_case_sensitive),
             NormalizeText(sec_last.requirement.text, sec_case_sensitive))

TriggersPresent(rule_name) ==
    LET triggers == RuleConfig(sec_rules, rule_name).triggers
    IN  {i \in 1..Len(triggers) : Present(triggers[i])}

RequiredPresent(rule_name) ==
    LET required_with == RuleConfig(sec_rules, rule_name).required_with
    IN  {i \in 1..Len(required_with) : Present(required_with[i])}

\* C4 as claimed: each of the four checks emits exactly one risk when some
\* configured trigger phrase is present and no required_with phrase is, however
\* many trigger phrases matched, and none otherwise.
C4_OneRiskPerCheck ==
    sec_calls > 0 =>
        \A rule_name \in SecurityRuleNames :
            Len(SecurityChecks[rule_name]) =
                IF TriggersPresent(rule_name) # {} /\ RequiredPresent(rule_name) = {}
                THEN 1 ELSE 0

\* the sequence of the elements of q at the positions in S, in order
RECURSIVE Select(_, _)
Select(q, S) ==
    IF q = <<>> THEN <<>>
    ELSE IF Len(q) \in S THEN Append(Select(SubSeq(q, 1, Len(q) - 1), S), q[Len(q)])
    ELSE Select(SubSeq(q, 1, Len(q) - 1), S)

\* C4 as amended: each of the four checks emits, when no required_with phrase
\* is present, one risk for every configured trigger phrase that is present,
\* in configured order and with that phrase as evidence, and none otherwise.
C4_OneRiskPerPresentTrigger ==
    sec_calls > 0 =>
        \A rule_name \in SecurityRuleNames :
            [p \in 1..Len(SecurityChecks[rule_name]) |-> SecurityChecks[rule_name][p].evidence]
                = IF RequiredPresent(rule_name) = {}
                  THEN Select(RuleConfig(sec_rules, rule_name).triggers,
                              TriggersPresent(rule_name))
                  ELSE <<>>

C4_Witness ==
    /\ sec_last.requirement.text = "Admin users shall delete records"
    /\ Len(sec_last.authz_risks) = 2
    /\ sec_last.authz_risks[1].evidence = "admin"
    /\ sec_last.authz_risks[2].evidence = "delete"
    /\ sec_last.authz_risks[2].id = "R001-SEC-002"

-----------------------------------------------------------------------------
(* Claims about detector construction *)

Disabled(t) == ~IsDetectorEnabled(fac_config, t)

-----------------------------------------------------------------------------
(* Claims about scoring *)

ZeroRecord(rec) ==
    /\ rec.total_score = 0
    /\ rec.avg_severity = 0
    /\ rec.risk_count = 0

\* C10: a finished calculate_risk_scores call raised nothing and returned a
\* record for every requirement of the list it was given; a requirement with
\* an empty risk list, or with no key in the map, has total_score 0,
\* avg_severity 0.0 and risk_count 0.
C10_EveryRequirementScored ==
    score_pc = "done" =>
        /\ score_raised = "None"
        /\ \A i \in 1..Len(score_requirements) :
               LET req_id == score_requirements[i].id
               IN  /\ req_id \in DOMAIN scores
                   /\ (req_id \notin DOMAIN score_risks \/ score_risks[req_id] = <<>>)
                          => ZeroRecord(scores[req_id])

C10_Witness ==
    /\ score_pc = "done"
    /\ Len(score_requirements) = 2
    /\ "R001" \in DOMAIN score_risks
    /\ Len(score_risks["R001"]) = 2
    /\ "R002" \notin DOMAIN score_risks
    /\ scores["R001"].total_score = 3
    /\ ZeroRecord(scores["R002"])

\* the sum of the severity ranks of the risks listed for a requirement
RankSum(risks) ==
    LET RECURSIVE Upto(_)
        Upto(k) == IF k = 0 THEN 0 ELSE Upto(k - 1) + risks[k].severity
    IN  Upto(Len(risks))

ScoredWithRisks ==
    {i \in 1..Len(score_requirements) :
        /\ score_requirements[i].id \in DOMAIN score_risks
        /\ score_risks[score_requirements[i].id] # <<>>}

\* C11 as claimed: for every requirement with n > 0 risks, total_score is the
\* sum of the severity ranks, risk_count is n and avg_severity is exactly
\* total_score / n (avg_severity is held in hundredths).
C11_AverageIsExactQuotient ==
    score_pc = "done" =>
        \A i \in ScoredWithRisks :
            LET req_id == score_requirements[i].id
                risks == score_risks[req_id]
            IN  /\ scores[req_id].total_score = RankSum(risks)
                /\ scores[req_id].risk_count = Len(risks)
                /\ scores[req_id].avg_severity * Len(risks) = 100 * RankSum(risks)

\* C11 as amended: for every requirement with n > 0 risks, total_score is the
\* sum of the severity ranks (each in 1..5), risk_count is n and avg_severity
\* is total_score / n rounded to two decimals: the hundredth nearest to the
\* quotient.
C11_AverageIsRoundedQuotient ==
    score_pc = "done" =>
        \A i \in ScoredWithRisks :
            LET req_id == score_requirements[i].id
                risks == score_risks[req_id]
                n == Len(risks)
                off == scores[req_id].avg_severity * n - 100 * RankSum(risks)
            IN  /\ \A k \in 1..n : risks[k].severity \in 1..5
                /\ scores[req_id].total_score = RankSum(risks)
                /\ scores[req_id].risk_count = n
                /\ 2 * off <= n
                /\ -2 * off <= n

C11_Witness ==
    /\ score_pc = "done"
    /\ "R001" \in DOMAIN scores
    /\ scores["R001"].risk_count = 3
    /\ scores["R001"].total_score = 4
    /\ scores["R001"].avg_severity = 133

-----------------------------------------------------------------------------
(* Claims about ranking *)

\* the place of an id in the parser's numbering
IdRank(id) == CHOOSE i \in 1..Len(RequirementIds) : RequirementIds[i] = id

\* x is ranked strictly before y: higher total_score, else higher risk_count,
\* else lower id
RankedBefore(x, y) ==
    \/ x.total_score > y.total_score
    \/ x.total_score = y.total_score /\ x.risk_count > y.risk_count
    \/ /\ x.total_score = y.total_score
       /\ x.risk_count = y.risk_count
       /\ IdRank(x.requirement_id) < IdRank(y.requirement_id)

\* a sequence with its elements rearranged by ascending id
ById(list) ==
    [i \in 1..Len(list) |->
        list[CHOOSE k \in 1..Len(list) :
                 Cardinality({j \in 1..Len(list) : IdRank(list[j].id) < IdRank(list[k].id)})
                     = i - 1]]

\* C12: the list get_top_riskiest returns is ordered by total_score
\* descending, then risk_count descending, then requirement id ascending,
\* strictly so between any two entries, and it is the list the call returns
\* when the requirement list and the score map are given in id order.
C12_TotalOrder ==
    top_pc = "done" =>
        /\ \A i \in 1..Len(top_result) : \A j \in (i + 1)..Len(top_result) :
               RankedBefore(top_result[i], top_result[j])
        /\ top_result = GetTopRiskiest(ById(top_requirements), ById(top_scores), top_n)

C12_Witness ==
    /\ top_pc = "done"
    /\ Len(top_scores) = 2
    /\ top_scores[1].id = "R002"
    /\ top_scores[1].data.total_score = 3
    /\ top_scores[2].data.total_score = 3
    /\ top_scores[1].data.risk_count = top_scores[2].data.risk_count
    /\ Len(top_result) = 2
    /\ top_result[1].requirement_id = "R001"

KnownIds == {top_requirements[i].id : i \in 1..Len(top_requirements)}

ScoredIds == {top_scores[i].id : i \in 1..Len(top_scores)}

Min(a, b) == IF a <= b THEN a ELSE b

\* C13 as claimed: the call returns exactly min(n, number of requirements)
\* entries, each for a distinct input requirement; a requirement with no
\* entry in the score map is ranked as a zero-risk requirement.
C13_MinOfNAndRequirements ==
    top_pc = "done" =>
        /\ Len(top_result) = Min(top_n, Len(top_requirements))
        /\ \A i \in 1..Len(top_result) : top_result[i].requirement_id \in KnownIds
        /\ \A i \in 1..Len(top_result) : \A j \in 1..Len(top_result) :
               i # j => top_result[i].requirement_id # top_result[j].requirement_id

\* C13 as amended: the call returns exactly min(n, number of requirements
\* that have an entry in the score map) entries, each for a distinct input
\* requirement that has an entry in the score map; when fewer than n such
\* requirements exist every one of them is returned; a requirement with no
\* entry in the score map is left out.
C13_MinOfNAndScoredRequirements ==
    top_pc = "done" =>
        /\ Len(top_result) = Min(top_n, Cardinality(KnownIds \cap ScoredIds))
        /\ \A i \in 1..Len(top_result) :
               top_result[i].requirement_id \in KnownIds \cap ScoredIds
        /\ \A i \in 1..Len(top_result) : \A j \in 1..Len(top_result) :
               i # j => top_result[i].requirement_id # top_result[j].requirement_id
        /\ top_n >= Cardinality(KnownIds \cap ScoredIds) =>
               {top_result[i].requirement_id : i \in 1..Len(top_result)}
                   = KnownIds \cap ScoredIds

C13_Witness ==
    /\ top_pc = "done"
    /\ top_n = 2
    /\ KnownIds = {"R001", "R002"}
    /\ ScoredIds = {"R002"}
    /\ Len(top_result) = 1
    /\ top_result[1].requirement_id = "R002"

-----------------------------------------------------------------------------
(* Claims about the structure detector *)

Parsed == struct_pc # "start"

\* the line numbers that are members of unit u
Members(u) == {struct_units[u].line_numbers[k] : k \in 1..Len(struct_units[u].line_numbers)}

Units == 1..Len(struct_units)

SameUnit(i, j) == \E u \in Units : i \in Members(u) /\ j \in Members(u)

UserStoryFragments == {"As a user,", "I want to reset my password,",
                       "so that I can regain access."}

\* C14: the three lines "As a user," / "I want to reset my password," /
\* "so that I can regain access." parse to exactly one unit, of type
\* user_story, with line_numbers [1,2,3]; two consecutive user-story fragment
\* lines always end up in the same user_story unit.
C14_UserStoryAccumulates ==
    Parsed =>
        /\ struct_lines = <<"As a user,", "I want to reset my password,",
                            "so that I can regain access.">>
               => /\ Len(struct_units) = 1
                  /\ struct_units[1].type = "user_story"
                  /\ struct_units[1].line_numbers = <<1, 2, 3>>
        /\ \A i \in 1..(Len(struct_lines) - 1) :
               struct_lines[i] \in UserStoryFragments /\ struct_lines[i + 1] \in UserStoryFragments
                   => \E u \in Units : /\ struct_units[u].type = "user_story"
                                       /\ i \in Members(u)
                                       /\ i + 1 \in Members(u)

C14_Witness ==
    /\ struct_pc = "parsed"
    /\ struct_lines = <<"As a user,", "I want to reset my password,",
                        "so that I can regain access.">>
    /\ Len(struct_units) = 1
    /\ struct_units[1].text
           = "As a user, I want to reset my password, so that I can regain access. "

SeparatorsAndHeaders == {"---", "# Login page"}

\* C15: a separator or header line is a member of no unit (its number is in
\* no unit's line_numbers, its text among no unit's lines and in no unit's
\* text), and no unit has both a line before it and a line after it.
C15_SeparatorNeverMember ==
    Parsed =>
        \A i \in 1..Len(struct_lines) :
            struct_lines[i] \in SeparatorsAndHeaders =>
                /\ \A u \in Units :
                       /\ i \notin Members(u)
                       /\ \A k \in 1..Len(struct_units[u].lines) :
                              struct_units[u].lines[k] # struct_lines[i]
                       /\ ~Contains(struct_lines[i], struct_units[u].text)
                /\ \A j \in 1..(i - 1) : \A k \in (i + 1)..Len(struct_lines) : ~SameUnit(j, k)

C15_Witness ==
    /\ struct_pc = "parsed"
    /\ struct_lines = <<"As a user,", "---", "I want to reset my password,">>
    /\ Len(struct_units) = 2
    /\ struct_units[1].line_numbers = <<1>>
    /\ struct_units[2].line_numbers = <<3>>

UnclassifiedLines == {"and more", "Passwords expire monthly", "As a user I want it", "Note"}

\* a unit is open when line i arrives, and its kind
OpenOnArrival(i) == ParseLines(struct_lines, i - 1).current # <<>>

KindOnArrival(i) == ParseLines(struct_lines, i - 1).current_type

\* line i joined the unit that was open when it arrived
Appended(i) == \E u \in Units : i \in Members(u) /\ \E j \in 1..(i - 1) : j \in Members(u)

\* line i is in no unit and the unit open before it holds no later line
ClosedAndDiscarded(i) ==
    /\ \A u \in Units : i \notin Members(u)
    /\ \A j \in 1..(i - 1) : \A k \in (i + 1)..Len(struct_lines) : ~SameUnit(j, k)

LeadIn(line) ==
    \/ StartsWith(line, "I want")
    \/ StartsWith(line, "so that")
    \/ StartsWith(line, "I need")

\* C16 as claimed: an unclassified line arriving while a unit of any kind is
\* open is appended to it whenever it starts with a lowercase letter, or
\* begins with a continuation lead-in, or is longer than 10 characters and
\* does not begin like a new unit; otherwise the unit is closed and the line
\* discarded.
C16_ContinuationAnyKind ==
    Parsed =>
        \A i \in 1..Len(struct_lines) :
            struct_lines[i] \in UnclassifiedLines /\ OpenOnArrival(i) =>
                IF \/ IsLower(CharAt(struct_lines[i], 1))
                   \/ LeadIn(struct_lines[i])
                   \/ Len(struct_lines[i]) > 10 /\ ~StartsWith(struct_lines[i], "As a")
                THEN Appended(i)
                ELSE ClosedAndDiscarded(i)

\* C16 as amended: an unclassified line arriving while a unit is open is
\* appended to it whenever the unit is a user story and the line starts with
\* a lowercase letter or a continuation lead-in, or, for a unit of any kind,
\* the line is longer than 10 characters and does not start with "As a";
\* otherwise the unit is closed and the line discarded.
C16_ContinuationByKind ==
    Parsed =>
        \A i \in 1..Len(struct_lines) :
            struct_lines[i] \in UnclassifiedLines /\ OpenOnArrival(i) =>
                IF \/ /\ KindOnArrival(i) = "user_story"
                      /\ IsLower(CharAt(struct_lines[i], 1)) \/ LeadIn(struct_lines[i])
                   \/ Len(struct_lines[i]) > 10 /\ ~StartsWith(struct_lines[i], "As a")
                THEN Appended(i)
                ELSE ClosedAndDiscarded(i)

C16_Witness ==
    /\ struct_pc = "parsed"
    /\ struct_lines = <<"The system shall log events.", "and more", "Passwords expire monthly">>
    /\ Len(struct_units) = 1
    /\ struct_units[1].line_numbers = <<1>>

\* C17 as claimed: the line numbers of every unit are consecutive integers.
C17_ConsecutiveLineNumbers ==
    Parsed =>
        \A u \in Units : \A k \in 1..(Len(struct_units[u].line_numbers) - 1) :
            struct_units[u].line_numbers[k + 1] = struct_units[u].line_numbers[k] + 1

\* C17 as amended: the line numbers of every unit are ascending, and every
\* line number they skip is that of an empty line: a unit never spans a
\* non-empty line that is not its member.
C17_ConsecutiveNonEmptyLines ==
    Parsed =>
        \A u \in Units : \A k \in 1..(Len(struct_units[u].line_numbers) - 1) :
            LET a == struct_units[u].line_numbers[k]
                b == struct_units[u].line_numbers[k + 1]
            IN  /\ a < b
                /\ \A i \in (a + 1)..(b - 1) : struct_lines[i] = ""

C17_Witness ==
    /\ struct_pc = "parsed"
    /\ struct_lines = <<"As a user,", "", "I want to reset my password,">>
    /\ Len(struct_units) = 1
    /\ struct_units[1].line_numbers = <<1, 3>>

Punctuation == {"-", ".", "*", "_", "=", "#", ",", ";", ":", "!", "?"}

\* every character of the text is punctuation or white space, and one is punctuation
PurePunctuation(text) ==
    /\ \A k \in 1..Len(text) : CharAt(text, k) \in Punctuation \cup Whitespace
    /\ \E k \in 1..Len(text) : CharAt(text, k) \in Punctuation

\* the number of words: the places where a word starts
WordCount(text) ==
    Cardinality({k \in 1..Len(text) :
                    /\ CharAt(text, k) \notin Whitespace
                    /\ k = 1 \/ CharAt(text, k - 1) \in Whitespace})

KeptAsClaimed(unit) ==
    /\ Len(Strip(unit.text)) >= 10
    /\ WordCount(unit.text) >= 3
    /\ ~PurePunctuation(unit.text)
    /\ unit.type = "user_story" => Len(unit.lines) >= 2

\* C18: filter_valid_requirements returns exactly those input units, in
\* their order, whose trimmed text has at least 10 characters, has at least
\* 3 words, is not pure punctuation and, for user_story units, has at least
\* 2 member lines; a unit of text "..." is rejected.
C18_FilterKeepsExactlyValid ==
    struct_pc = "filtered" =>
        /\ struct_valid = SelectSeq(struct_given, KeptAsClaimed)
        /\ \A k \in 1..Len(struct_valid) : struct_valid[k].text # "..."

-----------------------------------------------------------------------------
(* Claims about the identifier generator *)

ThreeLetterCode ==
    [ambiguity |-> "AMB", missing_detail |-> "MIS", security |-> "SEC",
     conflict |-> "CON", performance |-> "PER", availability |-> "AVA"]

ThreeDigits(k) == ToString(k \div 100) \o ToString((k \div 10) % 10) \o ToString(k % 10)

\* how many of the first i logged calls used the key of call i
CallsWithKeyOf(i) ==
    Cardinality({j \in 1..i : /\ log[j].requirement_id = log[i].requirement_id
                              /\ log[j].category = log[i].category})

\* C7: on a fresh generator the k-th call with a key (requirementId, category)
\* returns "{requirementId}-{first three letters of the category, upper-cased}-
\* {k zero-padded to 3 digits}"; calls with other keys do not change the count.
C7_KthCallFormat ==
    \A i \in 1..Len(log) :
        log[i].id = log[i].requirement_id \o "-" \o ThreeLetterCode[log[i].category]
                        \o "-" \o ThreeDigits(CallsWithKeyOf(i))

C7_Witness ==
    /\ Len(log) >= 3
    /\ log[1].requirement_id = log[3].requirement_id
    /\ log[1].category = log[3].category
    /\ log[2].requirement_id = log[1].requirement_id
    /\ log[2].category # log[1].category
    /\ log[3].id = "R001-MIS-002"

\* C8: after reset(), a sequence of generate calls returns the identifiers the
\* same calls return on a fresh generator, whatever was generated before.
C8_ResetReplaysFresh == gen_phase = "reset" => replay_ids = fresh_ids

C8_Witness ==
    /\ gen_phase = "reset"
    /\ Len(replay_ids) >= 2
    /\ \E i \in 1..Len(log) : log[i].id = replay_ids[1]
    /\ replay_ids[2] # replay_ids[1]

-----------------------------------------------------------------------------
(* Claims about the traceability detector *)

\* the descriptions of the per-signal risks for the signals the text lacks
MissingSignalDescriptions(text) ==
    (IF HasRequirementId(text) THEN <<>> ELSE <<MissingIdDescription>>)
    \o (IF HasAcceptanceCriteria(text, trace_rules, trace_case_sensitive)
        THEN <<>> ELSE <<MissingAcDescription>>)
    \o (IF HasTestReference(text, trace_rules, trace_case_sensitive)
        THEN <<>> ELSE <<MissingTestRefDescription>>)

\* C19: for every requirement the traceability detector returns either
\* exactly one blanket "no traceability" risk at the detector's default
\* severity (when none of the three signals is present), or exactly one risk
\* per missing signal at the downgraded severity (when at least one signal is
\* present), never the blanket risk together with per-signal risks.
C19_BlanketOrPerMissingSignal ==
    (trace_calls > 0 /\ trace_enabled) =>
        LET risks == trace_last.risks
            missing == MissingSignalDescriptions(trace_last.requirement.text)
        IN  /\ trace_last.raised = "None"
            /\ IF Len(missing) = 3
               THEN /\ Len(risks) = 1
                    /\ risks[1].description = NoSignalsDescription
                    /\ risks[1].severity = SeverityLevel[trace_severity]
               ELSE /\ Len(risks) = Len(missing)
                    /\ \A k \in 1..Len(risks) :
                           /\ risks[k].description = missing[k]
                           /\ risks[k].severity = SeverityLevel["medium"]

-----------------------------------------------------------------------------
(* Claims about the category set and the detectors made for it *)

EightCategories == {"ambiguity", "missing_detail", "security", "conflict",
                    "performance", "availability", "traceability", "scope"}

\* C20: the risk category set is exactly {ambiguity, missing_detail, security,
\* conflict, performance, availability, traceability, scope}, the factory
\* constructs a detector for each of the eight, and creating all detectors
\* yields eight detectors, one per category.
C20_EightCategoriesEightDetectors ==
    /\ RiskCategory = EightCategories
    /\ (/\ fac_last.call = "create_detector"
        /\ fac_last.detector_type \in EightCategories
        /\ IsDetectorEnabled(fac_config, fac_last.detector_type))
           => fac_last.raised = "None"
    /\ (/\ fac_last.call = "create_all_detectors"
        /\ \A c \in EightCategories : IsDetectorEnabled(fac_config, c))
           => /\ Len(fac_last.detectors) = 8
              /\ {fac_last.detectors[k] : k \in 1..Len(fac_last.detectors)} = EightCategories

-----------------------------------------------------------------------------
(* Claims about the units of the structure detector *)

\* ' '.join(lines)
RECURSIVE JoinSpace(_)
JoinSpace(lines) ==
    IF lines = <<>> THEN ""
    ELSE IF Len(lines) = 1 THEN lines[1]
    ELSE JoinSpace(SubSeq(lines, 1, Len(lines) - 1)) \o " " \o lines[Len(lines)]

\* C27: for every unit, the trimmed text equals its member lines, each
\* trimmed, joined by single spaces in line order, so the last word of one
\* member line and the first word of the next are never fused.
C27_TextIsJoinedLines ==
    Parsed =>
        \A u \in Units :
            Strip(struct_units[u].text)
                = JoinSpace([k \in 1..Len(struct_units[u].lines) |->
                                Strip(struct_units[u].lines[k])])

\* the parser's state when line n arrives
OnArrival(n) == ParseLines(struct_lines, n - 1)

\* line n opens a unit: a functional or non-functional line always, a
\* user-story line when no user-story unit is open
OpensUnit(n) ==
    LET line == Strip(struct_lines[n])
        line_type == TypeOfLine(line)
    IN  /\ line # ""
        /\ \/ line_type \in {RequirementType.FUNCTIONAL, RequirementType.NON_FUNCTIONAL}
           \/ /\ line_type = RequirementType.USER_STORY
              /\ \/ OnArrival(n).current = <<>>
                 \/ OnArrival(n).current_type # RequirementType.USER_STORY

OpeningLines == {n \in 1..Len(struct_lines) : OpensUnit(n)}

\* C28: each unit's line_numbers are strictly increasing, every input line
\* number occurs in at most one unit, units are emitted in increasing order
\* of their first line number, and every unit that was opened, the one still
\* open at end of input included, is emitted exactly once.
C28_UnitsPartitionInOrder ==
    Parsed =>
        /\ \A u \in Units :
               LET nums == struct_units[u].line_numbers
               IN  /\ Len(nums) >= 1
                   /\ \A k \in 1..Len(nums) : nums[k] \in 1..Len(struct_lines)
                   /\ \A k \in 1..(Len(nums) - 1) : nums[k] < nums[k + 1]
        /\ \A u, v \in Units : u # v => Members(u) \cap Members(v) = {}
        /\ \A u \in Units : u < Len(struct_units) =>
               struct_units[u].line_numbers[1] < struct_units[u + 1].line_numbers[1]
        /\ Len(struct_units) = Cardinality(OpeningLines)
        /\ \A n \in OpeningLines :
               Cardinality({u \in Units : struct_units[u].line_numbers[1] = n}) = 1

C28_Witness ==
    /\ struct_pc = "parsed"
    /\ Len(struct_lines) = 3
    /\ Len(struct_units) = 2
    /\ struct_units[1].line_numbers = <<1>>
    /\ struct_units[2].line_numbers = <<2, 3>>
    /\ struct_units[2].type = "functional"

\* C29: a line that begins a new user story (an "As a ..." fragment) arriving
\* while a user_story unit is open starts a new unit, so two back-to-back
\* user stories yield two units, not one merged unit.
C29_NewStoryStartsNewUnit ==
    Parsed =>
        \A n \in 1..Len(struct_lines) :
            (/\ StartsWith(Strip(struct_lines[n]), "As a")
             /\ OnArrival(n).current # <<>>
             /\ OnArrival(n).current_type = RequirementType.USER_STORY)
                => \E u \in Units : struct_units[u].line_numbers[1] = n

-----------------------------------------------------------------------------
(* Claims about the conflict detector *)

\* the risks of the last call that report contradictory terms
ContradictionReports ==
    {k \in 1..Len(conf_last.risks) :
        StartsWith(conf_last.risks[k].description, "Contradictory terms found")}

\* the term occurs in the requirement's text, both compared as the detector
\* normalises them
TermPresent(term) ==
    Contains(NormalizeText(term, conf_case_sensitive),
             NormalizeText(conf_last.requirement.text, conf_case_sensitive))

\* C21: the contradiction check emits a risk for a configured term pair only
\* if both members of that pair are present in the requirement's text; a
\* requirement that uses only one member of every configured pair yields no
\* contradiction risk.
C21_RiskOnlyWhenBothPresent ==
    conf_calls > 0 =>
        /\ \A k \in ContradictionReports :
               \E p \in 1..Len(conf_pairs) :
                   /\ conf_last.risks[k].evidence
                          = PairEvidence(conf_pairs[p][1], conf_pairs[p][2])
                   /\ TermPresent(conf_pairs[p][1])
                   /\ TermPresent(conf_pairs[p][2])
        /\ (\A p \in 1..Len(conf_pairs) :
                ~(TermPresent(conf_pairs[p][1]) /\ TermPresent(conf_pairs[p][2])))
               => ContradictionReports = {}

C21_Witness ==
    /\ conf_calls = 2
    /\ conf_last.requirement.text = "Always required, never optional"
    /\ Len(conf_last.contradiction_risks) = 2
    /\ conf_last.risks[2].id = "R002-CON-002"
    /\ conf_last.risks[2].evidence = "'required' and 'optional'"

-----------------------------------------------------------------------------
(* Claims about the configuration provider *)

\* C22: after a successful load, every further load on the same provider
\* returns the same rule document without re-reading the source, until
\* reload() is called; after reload() the next load re-reads the source and
\* reflects its current content.
C22_CachedUntilReload ==
    prov_last.op = "get_configuration" =>
        /\ prov_last.loaded_before # <<>> =>
               /\ prov_last.raised = "None"
               /\ prov_last.returned = prov_last.loaded_before
               /\ ~prov_last.read
        /\ prov_last.loaded_before = <<>> =>
               /\ prov_last.read
               /\ prov_last.raised = "None" => prov_last.returned = prov_last.source.value
               /\ prov_last.raised # "None" => prov_last.source.kind # "json"

C22_Witness ==
    /\ prov_last.op = "get_configuration"
    /\ prov_reads = 2
    /\ prov_calls = 4
    /\ prov_last.read
    /\ prov_last.returned = <<[detectors |-> [test |-> [enabled |-> FALSE]]]>>
    /\ prov_config = prov_last.returned

-----------------------------------------------------------------------------
(* Claims about the requirement parser *)

\* C23: within one parser instance requirements receive the ids R001, R002,
\* ... in discovery order, the numbering continuing across successive parse
\* calls until reset_counter is called, so no two requirements produced
\* between resets share an id: the requirement made of the i-th item handed
\* to the parser since the last reset has the id R followed by i in three
\* digits.
C23_IdsInDiscoveryOrder ==
    /\ \A k \in 1..Len(par_produced) :
           par_produced[k].id = "R" \o ThreeDigits(par_produced[k].position)
    /\ \A j, k \in 1..Len(par_produced) :
           j < k => /\ par_produced[j].position < par_produced[k].position
                    /\ par_produced[j].id # par_produced[k].id
    /\ par_last.raised = "None" =>
           \A k \in 1..Len(par_last.returned) :
               par_last.returned[k].id = "R" \o ThreeDigits(par_last.handed + k)

C23_Witness ==
    /\ par_calls = 2
    /\ par_last.op = "parse_structured_requirements"
    /\ Len(par_produced) = 4
    /\ par_produced[1].id = "R001"
    /\ par_last.returned[2].id = "R004"
    /\ par_last.returned[2].line_number = 1

-----------------------------------------------------------------------------
(* Claims about the circuit breaker *)

\* C24: after failure_threshold consecutive failed calls in CLOSED the
\* breaker is OPEN, and every call made before recovery_timeout has elapsed
\* since the last failure is rejected with a CIRCUIT_BREAKER_OPEN error
\* without invoking the wrapped function.
C24_OpensAndRejects ==
    /\ (/\ cb_last.state_before = CircuitState.CLOSED
        /\ cb_last.outcome = "raises_expected"
        /\ cb_last.closed_failures >= cb_config.failure_threshold)
           => cb_state = CircuitState.OPEN
    /\ (/\ cb_last.outcome # "none"
        /\ cb_last.state_before = CircuitState.OPEN
        /\ cb_last.now - cb_last.last_failure_before < cb_config.recovery_timeout)
           => /\ ~cb_last.invoked
              /\ cb_last.raised = "StressSpecException"
              /\ cb_last.error_code = "CIRCUIT_BREAKER_OPEN"
              /\ cb_state = CircuitState.OPEN

C24_Witness ==
    /\ cb_config.failure_threshold = 2
    /\ cb_config.recovery_timeout = 2
    /\ cb_calls = 3
    /\ cb_now = 1
    /\ cb_last.state_before = CircuitState.OPEN
    /\ cb_last.last_failure_before = 0
    /\ ~cb_last.invoked
    /\ cb_last.error_code = "CIRCUIT_BREAKER_OPEN"

\* C30: from HALF_OPEN the breaker returns to CLOSED only after
\* success_threshold successful calls made since it last entered HALF_OPEN;
\* successes counted in an earlier HALF_OPEN episode that ended in a failure
\* do not count toward closing.
C30_ClosesOnEpisodeSuccesses ==
    (/\ cb_last.outcome # "none"
     /\ cb_last.state_before # CircuitState.CLOSED
     /\ cb_state = CircuitState.CLOSED)
        => cb_last.episode_successes >= cb_config.success_threshold

-----------------------------------------------------------------------------
(* Claims about the retry manager *)

\* the attempts of the last retry call that failed
FailedAttempts == {k \in 1..retry_last.invoked : retry_last.behaviour[k] # "returns"}

\* C25: retry invokes the wrapped function at most max_attempts times, stops
\* at the first successful attempt and returns its result, and if every
\* attempt fails re-raises the exception of the last attempt.
C25_BoundedRetry ==
    retry_calls > 0 =>
        /\ retry_last.invoked <= retry_max_attempts
        /\ \A k \in 1..retry_last.invoked :
               retry_last.behaviour[k] = "returns"
                   => /\ k = retry_last.invoked
                      /\ retry_last.returned = k
                      /\ retry_last.raised = "None"
        /\ (retry_last.invoked > 0 /\ FailedAttempts = 1..retry_last.invoked)
               => /\ retry_last.returned = 0
                  /\ retry_last.raised_by = retry_last.invoked
                  /\ retry_last.raised = retry_last.behaviour[retry_last.invoked]
        /\ (retry_last.returned = 0 /\ retry_last.raised = "raises_retryable")
               => retry_last.invoked = retry_max_attempts

C25_Witness ==
    /\ retry_calls = 2
    /\ retry_max_attempts = 3
    /\ retry_last.behaviour[1] = "raises_retryable"
    /\ retry_last.behaviour[2] = "raises_retryable"
    /\ retry_last.behaviour[3] = "raises_retryable"
    /\ retry_last.invoked = 3
    /\ retry_last.raised_by = 3
    /\ retry_last.raised = "raises_retryable"

-----------------------------------------------------------------------------
(* Claims about repeated analysis *)

\* C26: analysing the same requirement list twice with the same detector
\* instances yields identical results, risk ids included: identifiers minted
\* in an earlier run do not shift the counters a later run sees.
C26_RerunYieldsSameIds ==
    \A i, j \in 1..Len(rerun_results) : rerun_results[i] = rerun_results[j]

====
